---- MODULE Spec2Model ----
(***************************************************************************)
(* A model of the AgentSDK runner (packages/runner): one AgentSDKRunner    *)
(* executing tool calls against an HTTP endpoint with validation, retry    *)
(* with backoff, error classification and session metrics.                 *)
(*                                                                         *)
(* An optional JavaScript value (a field that may be undefined) is a       *)
(* sequence of length at most one: None is undefined, Some(v) is v.        *)
(***************************************************************************)
EXTENDS Integers, Sequences, FiniteSets, TLC

None == <<>>
Some(v) == <<v>>

(***************************************************************************)
(* Bounds of the model.                                                    *)
(***************************************************************************)
\* largest maxRetries a drawn retry policy declares
MaxPolicyRetries == 4
\* largest maxRetries a drawn runner configuration declares
MaxConfigRetries == 4
\* number of executeToolCall invocations the client makes on a session
MaxCalls == 2
\* number of call sites that may have a call in flight at the same time
NumCallers == 2

(***************************************************************************)
(* Program constants.                                                      *)
(***************************************************************************)
\* the fallback of `guardrails?.retry?.maxRetries || 3` and `config.maxRetries || 3`
DefaultMaxRetries == 3
\* the baseDelay executeWithRetry hands to retryWithBackoff
RetryBaseDelay == 300

Callers == 1..NumCallers

(***************************************************************************)
(* The document: operations, retry policies, error patterns.               *)
(***************************************************************************)
\* RetryStrategy of the specification types
RetryStrategy == {"none", "exponentialBackoff", "linearBackoff", "fixedDelay"}

\* the initialDelayMs values drawn for a policy
InitialDelays == {None, Some(100)}

\* RetryConfig: every field is optional
RetryConfig ==
  [strategy : {None} \cup {Some(s) : s \in RetryStrategy},
   maxRetries : {None} \cup {Some(n) : n \in 0..MaxPolicyRetries},
   initialDelayMs : InitialDelays]

\* the HTTP statuses the endpoint answers with
Statuses == {200, 404, 503}

\* Number.prototype.toString of a status
StatusString(s) == ToString(s)

\* ErrorPattern, the fields the runner reads (the message apart)
ErrorPattern(code, retryable) ==
  [code |-> code, retryable |-> retryable, recoveryHint |-> None,
   category |-> "client"]

\* the x-errors lists drawn for an operation
ErrorLists ==
  {<<>>,
   <<ErrorPattern("404", Some(FALSE))>>,
   <<ErrorPattern("503", Some(FALSE))>>,
   <<ErrorPattern("404", Some(TRUE))>>}

\* the argument names of the model's input schemas
ArgNames == {"id"}

\* the argument objects a client calls with: JSON values by name, each value
\* written as its JSON text
ArgObjects ==
  {[n \in names |-> [type |-> "number", text |-> "42"]] :
     names \in SUBSET ArgNames}

\* Operation, the fields the runner reads; `required` is the input schema,
\* `path` the path template as its segments, a token segment being "{name}"
Operation(opId, method, path, required, retry, errors) ==
  [opId |-> opId, method |-> method, path |-> path, required |-> required,
   retry |-> retry, errors |-> errors, output |-> None]

\* the output schemas of an operation: an object schema with required
\* properties; `compiles` is FALSE for a schema ajv.compile throws on
OutputSchemas ==
  {[required |-> {"id"}, compiles |-> TRUE],
   [required |-> {}, compiles |-> FALSE]}

\* Operation.output
WithOutput(operation, schema) == [operation EXCEPT !.output = schema]

\* a tool name that is no opId of any document and holds a double quote
QuotedName == "no\"pe"

\* the tool names a client may call with
ToolNames == {"getItem", "listItems", QuotedName}

\* the double quote and the comma, as characters of a text
Quote == "\""
Comma == ","

\* the characters of a string, as a text: a sequence of pieces, a quote or a
\* comma always being a piece of its own
Text(str) == IF str = QuotedName THEN <<"no", Quote, "pe">> ELSE <<str>>

(***************************************************************************)
(* Pure functions.                                                         *)
(***************************************************************************)
RECURSIVE Pow2(_)
\* Math.pow(2, n)
Pow2(n) == IF n = 0 THEN 1 ELSE 2 * Pow2(n - 1)

\* JavaScript `x || d` for an optional number: undefined and 0 are falsy
OrDefault(x, d) == IF x = None \/ x[1] = 0 THEN d ELSE x[1]

Min(a, b) == IF a <= b THEN a ELSE b

\* Array.prototype.find, given the indices of the elements that satisfy the
\* test: the first of them, 0 when there is none
FindFirst(hits) ==
  IF hits = {} THEN 0 ELSE CHOOSE i \in hits : \A j \in hits : i <= j

\* a lookup that falls back to the first operation of the document
FindOperationForToolCallOrFirst(operations, toolCallName) ==
  LET i == FindFirst({k \in 1..Len(operations) :
                         operations[k].opId = toolCallName})
  IN IF i = 0 THEN Some(operations[1]) ELSE Some(operations[i])

\* findOperationForToolCall
FindOperationForToolCall(operations, toolCallName) ==
  LET i == FindFirst({k \in 1..Len(operations) :
                         operations[k].opId = toolCallName})
  IN IF i = 0 THEN None ELSE Some(operations[i])

\* validateOperationInput: the schema requires the names of operation.required
ValidateOperationInput(operation, args) ==
  [valid |-> operation.required \subseteq DOMAIN args]

\* the last of the indices that satisfy a test, 0 when there is none
FindLast(hits) ==
  IF hits = {} THEN 0 ELSE CHOOSE i \in hits : \A j \in hits : j <= i

\* an extractErrorInfo that takes the last pattern of the status
ExtractErrorInfoLastMatch(operation, httpStatus) ==
  LET statusCode == StatusString(httpStatus)
      i == FindLast({k \in 1..Len(operation.errors) :
                       operation.errors[k].code = statusCode})
  IN IF i # 0
     THEN [code |-> operation.errors[i].code,
           retryable |-> (operation.errors[i].retryable = Some(TRUE)),
           recoveryHint |-> operation.errors[i].recoveryHint,
           category |-> Some(operation.errors[i].category)]
     ELSE [code |-> statusCode,
           retryable |-> (httpStatus >= 500 \/ httpStatus = 429),
           recoveryHint |-> Some(IF httpStatus >= 500 \/ httpStatus = 429
                                 THEN "Retry with exponential backoff"
                                 ELSE "Check request parameters"),
           category |-> None]

\* extractErrorInfo (the message apart)
ExtractErrorInfo(operation, httpStatus) ==
  LET statusCode == StatusString(httpStatus)
      i == FindFirst({k \in 1..Len(operation.errors) :
                        operation.errors[k].code = statusCode})
  IN IF i # 0
     THEN [code |-> operation.errors[i].code,
           retryable |-> (operation.errors[i].retryable = Some(TRUE)),
           recoveryHint |-> operation.errors[i].recoveryHint,
           category |-> Some(operation.errors[i].category)]
     ELSE [code |-> statusCode,
           retryable |-> (httpStatus >= 500 \/ httpStatus = 429),
           recoveryHint |-> Some(IF httpStatus >= 500 \/ httpStatus = 429
                                 THEN "Retry with exponential backoff"
                                 ELSE "Check request parameters"),
           category |-> None]

\* an Error object with the properties the runner attaches or reads
ErrorObject(message, httpStatus, retryable, errorCode, code) ==
  [message |-> message, httpStatus |-> httpStatus, retryable |-> retryable,
   errorCode |-> errorCode, code |-> code]

\* new Error(`Unknown operation: ${toolCallName}`)
UnknownOperationError(toolCallName) ==
  ErrorObject(<<"Unknown operation: ">> \o Text(toolCallName),
              None, None, None, None)

\* new Error(`Input validation failed: ...`)
InputValidationError ==
  ErrorObject(<<"Input validation failed: must have required property">>,
              None, None, None, None)

\* the error executeHttp throws for a response that is not ok
HttpError(operation, httpStatus) ==
  LET errorInfo == ExtractErrorInfo(operation, httpStatus)
  IN ErrorObject(<<"HTTP ", StatusString(httpStatus)>>,
                 Some(httpStatus), Some(errorInfo.retryable),
                 Some(errorInfo.code), None)

\* the rejection of fetch: a network failure or the timeout signal
FetchError(code) == ErrorObject(<<"fetch failed">>, None, None, None, code)

\* isRetryableError
IsRetryableError(operation, error) ==
  IF error.retryable # None THEN error.retryable[1]
  ELSE IF error.httpStatus # None
       THEN error.httpStatus[1] >= 500 \/ error.httpStatus[1] = 429
  ELSE error.code \in {Some("ENOTFOUND"), Some("ECONNRESET"), Some("ETIMEDOUT")}

\* extractErrorCode: error.errorCode || error.code || error.httpStatus?.toString()
ExtractErrorCode(error) ==
  IF error.errorCode # None /\ error.errorCode[1] # "" THEN error.errorCode
  ELSE IF error.code # None /\ error.code[1] # "" THEN error.code
  ELSE IF error.httpStatus # None THEN Some(StatusString(error.httpStatus[1]))
  ELSE None

\* Response.ok
ResponseOk(status) == status >= 200 /\ status <= 299

\* what one fetch settles with: a response, or a rejection
\* a JSON object, as the set of its <<name, value>> members
JsonObject(members) == [type |-> "object", members |-> members]

\* the JSON value null
JsonNull == [type |-> "null", members |-> {}]

\* the body text of an item
ItemBody == "{\"id\":42}"

\* the body texts response.text() may yield
Bodies == {"", ItemBody, "{}", "null", "<html>"}

\* JSON.parse: the value of a text, None where it throws a SyntaxError
JsonParse(text) ==
  CASE text = ItemBody -> Some(JsonObject({<<"id", 42>>}))
    [] text = "{}" -> Some(JsonObject({}))
    [] text = "null" -> Some(JsonNull)
    [] OTHER -> None

\* an executeHttp whose catch leaves null for a body that does not parse
ParseBodyNullOnError(text) ==
  IF text = "" THEN JsonObject({})
  ELSE IF JsonParse(text) = None THEN JsonNull
  ELSE JsonParse(text)[1]

\* executeHttp: try { data = text ? JSON.parse(text) : {} } catch { data = {} }
ParseBody(text) ==
  IF text = "" THEN JsonObject({})
  ELSE IF JsonParse(text) = None THEN JsonObject({})
  ELSE JsonParse(text)[1]

\* the truthiness of a parsed body
Truthy(data) == data.type # "null"

\* validateOperationOutput: the schema is compiled, the value validated, and
\* an exception of either becomes an invalid result
ValidateOperationOutput(operation, data) ==
  [valid |-> /\ operation.output[1].compiles
             /\ data.type = "object"
             /\ operation.output[1].required
                  \subseteq {m[1] : m \in data.members}]

\* what fetch settles with: a response or a rejection
HttpResponse(status, body) ==
  [kind |-> "response", status |-> status, code |-> None, body |-> body]

FetchRejection(code) ==
  [kind |-> "rejection", status |-> 0, code |-> code, body |-> ""]

Responses ==
  {HttpResponse(s, ItemBody) : s \in Statuses}
  \cup {FetchRejection(c) : c \in {None, Some("ECONNRESET")}}

\* responses over every body text
BodyResponses ==
  {HttpResponse(s, b) : s \in {200, 503}, b \in Bodies}

(***************************************************************************)
(* Request building.                                                       *)
(***************************************************************************)
\* the JSON values an argument may hold, each with its JSON type and the
\* text String(value) gives for it
JsonValues ==
  {[type |-> "number", text |-> "42"],
   [type |-> "string", text |-> "a b"],
   [type |-> "boolean", text |-> "true"]}

\* String(value)
String(value) == value.text

\* encodeURIComponent, on the texts of the model: a space becomes %20
EncodeURIComponent(str) == IF str = "a b" THEN "a%20b" ELSE str

\* the path token of an argument name: `{${key}}`
Token(key) == "{" \o key \o "}"

\* path.includes(`{${key}}`), on a path kept as its segments
PathIncludes(path, key) == \E i \in 1..Len(path) : path[i] = Token(key)

\* path.replace(`{${key}}`, text): the first occurrence only
PathReplace(path, key, text) ==
  LET first == FindFirst({i \in 1..Len(path) : path[i] = Token(key)})
  IN IF first = 0 THEN path ELSE [path EXCEPT ![first] = text]

\* the loop over Object.entries(args) of buildHttpRequest, for the path: the
\* path after the arguments in `keys` took their tokens
RECURSIVE FillPath(_, _, _)
FillPath(path, args, keys) ==
  IF keys = {} THEN path
  ELSE LET key == CHOOSE k \in keys : TRUE
       IN FillPath(IF PathIncludes(path, key)
                   THEN PathReplace(path, key,
                                    EncodeURIComponent(String(args[key])))
                   ELSE path,
                   args, keys \ {key})

\* context.baseUrl.replace(/\/$/, ""), on a base URL kept as its text before
\* the final slash and whether it ends in one
StripTrailingSlash(baseUrl) == [baseUrl EXCEPT !.slash = FALSE]

\* a headers object, from its <<name, value>> pairs
HeaderMap(pairs) ==
  [k \in {p[1] : p \in pairs} |-> (CHOOSE p \in pairs : p[1] = k)[2]]

\* Object.assign(target, source)
ObjectAssign(target, source) ==
  [k \in DOMAIN target \cup DOMAIN source |->
     IF k \in DOMAIN source THEN source[k] ELSE target[k]]

\* the headers buildHttpRequest starts from
DefaultHeaders ==
  HeaderMap({<<"Content-Type", "application/json">>,
             <<"User-Agent", "AgentSDK/0.1.0">>})

\* a buildHttpRequest that assigns the caller's headers after the document's
BuildHeadersContextLast(context) ==
  LET withSdk == IF context.sdkAuthHeaders # None
                 THEN ObjectAssign(DefaultHeaders, context.sdkAuthHeaders[1])
                 ELSE DefaultHeaders
  IN IF context.authHeaders # None
     THEN ObjectAssign(withSdk, context.authHeaders[1])
     ELSE withSdk

\* buildHttpRequest: the default headers, then context.authHeaders, then
\* context.sdk.auth.headers
BuildHeaders(context) ==
  LET withAuth == IF context.authHeaders # None
                  THEN ObjectAssign(DefaultHeaders, context.authHeaders[1])
                  ELSE DefaultHeaders
  IN IF context.sdkAuthHeaders # None
     THEN ObjectAssign(withAuth, context.sdkAuthHeaders[1])
     ELSE withAuth

\* a buildHttpRequest that sends the JSON body with every method
BuildHttpRequestBodyAlways(context, operation, args) ==
  LET rest == {k \in DOMAIN args : ~PathIncludes(operation.path, k)}
      bodyParams == [k \in rest |-> args[k]]
  IN [url |-> [base |-> StripTrailingSlash(context.baseUrl),
               path |-> FillPath(operation.path, args, DOMAIN args),
               query |-> <<>>],
      method |-> operation.method,
      headers |-> BuildHeaders(context),
      body |-> IF rest # {} THEN Some(bodyParams) ELSE None]

\* buildHttpRequest, without its timeout. The query string and the
\* body are kept as the objects they encode, a missing property as None.
BuildHttpRequest(context, operation, args) ==
  LET query == operation.method \in {"GET", "DELETE"}
      rest == {k \in DOMAIN args : ~PathIncludes(operation.path, k)}
      queryParams == [k \in IF query THEN rest ELSE {} |-> String(args[k])]
      bodyParams == [k \in IF query THEN {} ELSE rest |-> args[k]]
  IN [url |-> [base |-> StripTrailingSlash(context.baseUrl),
               path |-> FillPath(operation.path, args, DOMAIN args),
               query |-> queryParams],
      method |-> operation.method,
      headers |-> BuildHeaders(context),
      body |-> IF ~query /\ DOMAIN bodyParams # {}
               THEN Some(bodyParams) ELSE None]

\* the base URL of the model's runners
BaseUrl == [text |-> "https://api.example", slash |-> TRUE]

\* createExecutionContext(sdk, options): the base URL and the caller's
\* headers of the options, and of the document its auth headers
CreateExecutionContext(sdkAuthHeaders, baseUrl, authHeaders) ==
  [baseUrl |-> baseUrl, authHeaders |-> authHeaders,
   sdkAuthHeaders |-> sdkAuthHeaders]

(***************************************************************************)
(* State.                                                                  *)
(***************************************************************************)
VARIABLES
  sdk,      \* config.sdk.operations: the operation list of the document
  config,   \* RunnerConfig: maxRetries, enableMetrics, enableLogging
  metrics,  \* this.metrics: the session counters and its record list
  calls,    \* per call site: the executeToolCall invocation it runs
  output,   \* what the last getMetrics / exportMetricsCSV returned
  pending,  \* executeToolCall invocations the client has still to make
  built,    \* a buildHttpRequest call on its own: its inputs and its result
  harness,  \* the EvaluationHarness and the reports it has returned
  classified, \* an extractErrorInfo call on its own: its inputs and its result
  fleet,    \* several runner instances: the objects they hold and their calls
  manifest, \* a tool export on its own: the document, the export, a lookup
  trial     \* an executeTask call of a treatment on its own: inputs and run

vars == <<sdk, config, metrics, calls, output, pending, built, harness,
          classified, fleet, manifest, trial>>

\* generateSessionId: `runner_${Date.now()}_${random}`. An id is letters,
\* digits and underscores and is only ever printed, so the model keeps one
\* name for all of them.
GenerateSessionId == "runner_0_id"

\* Date.now(): the clock of the model stands still
Now == 0

\* the metrics object of the constructor and of resetMetrics
NewMetrics(sessionId) ==
  [sessionId |-> sessionId, startTime |-> Now,
   totalOperations |-> 0, successfulOperations |-> 0, failedOperations |-> 0,
   totalRetries |-> 0, operations |-> <<>>]

\* a call site before its first call
IdleCall ==
  [pc |-> "idle", name |-> "", args |-> <<>>, request |-> None, attempt |-> 0, rbAttempt |-> 0,
   retryCount |-> 0, httpStatus |-> None, shouldRetry |-> FALSE,
   maxRetries |-> 0, inputChecked |-> FALSE, validated |-> FALSE, sends |-> 0, waits |-> 0,
   delays |-> <<>>, settled |-> None, allRetryable |-> TRUE,
   appended |-> <<>>, error |-> None, result |-> None,
   outputValid |-> None, warned |-> FALSE]

\* the locals of executeToolCall at its entry
NewCall(toolCallName, args) ==
  [IdleCall EXCEPT !.pc = "running", !.name = toolCallName, !.args = args]

\* a record that leaves the retries of its call out
ExecutionRecordZeroRetries(call, success, error) ==
  [operationId |-> call.name,
   startTime |-> Now,
   duration |-> Now - Now,
   httpStatus |-> call.httpStatus,
   retryCount |-> 0,
   success |-> success,
   errorCode |-> IF error = None THEN None ELSE ExtractErrorCode(error[1]),
   errorMessage |-> IF error = None THEN None ELSE Some(error[1].message)]

\* ExecutionMetrics
ExecutionRecord(call, success, error) ==
  [operationId |-> call.name,
   startTime |-> Now,
   duration |-> Now - Now,
   httpStatus |-> call.httpStatus,
   retryCount |-> call.retryCount,
   success |-> success,
   errorCode |-> IF error = None THEN None ELSE ExtractErrorCode(error[1]),
   errorMessage |-> IF error = None THEN None ELSE Some(error[1].message)]

\* recordExecution without its enableMetrics test: it records on every runner
RecordExecutionAlways(m, enableMetrics, rec) ==
  [m EXCEPT
     !.operations = Append(@, rec),
     !.totalOperations = @ + 1,
     !.totalRetries = @ + rec.retryCount,
     !.successfulOperations = IF rec.success THEN @ + 1 ELSE @,
     !.failedOperations = IF rec.success THEN @ ELSE @ + 1]

\* recordExecution without its else branch: a failure is not counted
RecordExecutionNoFailed(m, enableMetrics, rec) ==
  IF ~enableMetrics THEN m
  ELSE [m EXCEPT
          !.operations = Append(@, rec),
          !.totalOperations = @ + 1,
          !.totalRetries = @ + rec.retryCount,
          !.successfulOperations = IF rec.success THEN @ + 1 ELSE @]

\* a recordExecution that keeps the latest record only
RecordExecutionKeepLast(m, enableMetrics, rec) ==
  IF ~enableMetrics THEN m
  ELSE [m EXCEPT
          !.operations = <<rec>>,
          !.totalOperations = @ + 1,
          !.totalRetries = @ + rec.retryCount,
          !.successfulOperations = IF rec.success THEN @ + 1 ELSE @,
          !.failedOperations = IF rec.success THEN @ ELSE @ + 1]

\* recordExecution
RecordExecution(m, enableMetrics, rec) ==
  IF ~enableMetrics THEN m
  ELSE [m EXCEPT
          !.operations = Append(@, rec),
          !.totalOperations = @ + 1,
          !.totalRetries = @ + rec.retryCount,
          !.successfulOperations = IF rec.success THEN @ + 1 ELSE @,
          !.failedOperations = IF rec.success THEN @ ELSE @ + 1]

\* executeToolCall: if (result.data && operation.output) the output is
\* validated, and a failure is logged when logging is enabled
CheckOutput(call, operation, data, enableLogging) ==
  IF Truthy(data) /\ operation.output # None
  THEN [call EXCEPT
          !.outputValid = Some(ValidateOperationOutput(operation, data).valid),
          !.warned = ~ValidateOperationOutput(operation, data).valid
                     /\ enableLogging]
  ELSE call

\* an executeToolCall that returns nothing when the output failed validation
ReturnDataOnlyIfValid(call, status, data) ==
  [call EXCEPT !.pc = "returned", !.httpStatus = Some(status),
               !.result = IF call.outputValid = Some(FALSE) THEN None
                          ELSE Some(data)]

\* the end of the try block of executeToolCall: return result.data
ReturnData(call, status, data) ==
  [call EXCEPT !.pc = "returned", !.httpStatus = Some(status),
               !.result = Some(data)]

\* a catch block that ends without `throw error`: the call resolves
RethrowSwallowed(call, error) ==
  [call EXCEPT !.pc = "returned", !.error = Some(error)]

\* the end of the catch block of executeToolCall: throw error
Rethrow(call, error) ==
  [call EXCEPT !.pc = "threw", !.error = Some(error)]

\* the records a step added to the end of the session's list
Appended(before, after) ==
  SubSeq(after.operations, Len(before.operations) + 1, Len(after.operations))

\* the catch block of executeToolCall: record the failure, rethrow
CatchAndRecord(c, call, error) ==
  /\ metrics' = RecordExecution(metrics, config.enableMetrics,
                                ExecutionRecord(call, FALSE, Some(error)))
  /\ calls' = [calls EXCEPT ![c] =
                 [Rethrow(call, error) EXCEPT
                    !.appended = Appended(metrics, metrics')]]

\* the tail of the try block of executeToolCall: record the success, return
RecordAndReturn(c, call, status, data) ==
  LET done == ReturnData(call, status, data)
  IN /\ metrics' = RecordExecution(metrics, config.enableMetrics,
                                   ExecutionRecord(done, TRUE, None))
     /\ calls' = [calls EXCEPT ![c] =
                    [done EXCEPT !.appended = Appended(metrics, metrics')]]

\* shouldRetry without its strategy test: any retry entry enables the loop
ShouldRetryAnyEntry(operation) == operation.retry # None

\* executeWithRetry: guardrails?.retry && guardrails.retry.strategy !== "none"
ShouldRetry(operation) ==
  /\ operation.retry # None
  /\ operation.retry[1].strategy # Some("none")

\* an executeWithRetry that takes the policy's number alone
EffectiveMaxRetriesOfPolicy(operation, cfg) ==
  OrDefault(IF operation.retry = None THEN None
            ELSE operation.retry[1].maxRetries, DefaultMaxRetries)

\* executeWithRetry: Math.min(guardrails?.retry?.maxRetries || 3, this.config.maxRetries || 3)
EffectiveMaxRetries(operation, cfg) ==
  Min(OrDefault(IF operation.retry = None THEN None
                ELSE operation.retry[1].maxRetries, DefaultMaxRetries),
      OrDefault(cfg.maxRetries, DefaultMaxRetries))

\* retryWithBackoff: const delay = baseDelay * Math.pow(2, attempt)
BackoffDelay(baseDelay, attempt) == baseDelay * Pow2(attempt)

\* a retryWithBackoff that also gives up on an error isRetryableError rejects
LastAttemptOrNotRetryable(operation, call, error) ==
  call.rbAttempt = call.maxRetries \/ ~IsRetryableError(operation, error)

\* a retryWithBackoff whose loop goes one round further
LastAttemptOneLate(operation, call, error) ==
  call.rbAttempt = call.maxRetries + 1

\* retryWithBackoff: if (attempt === maxRetries) throw lastError
LastAttempt(operation, call, error) == call.rbAttempt = call.maxRetries

\* an executeToolCall that ignores the validation result
InputRejectedNever(operation, args) == FALSE

\* executeToolCall: if (!inputValidation.valid) throw
InputRejected(operation, args) ==
  ~ValidateOperationInput(operation, args).valid

\* executeHttp up to its fetch: one send attempt goes out
SendAttempt(call) ==
  [call EXCEPT
     !.pc = "sending", !.sends = @ + 1,
     !.request =
       Some(BuildHttpRequest(CreateExecutionContext(None, BaseUrl, None),
                             FindOperationForToolCall(sdk, call.name)[1],
                             call.args))]

\* an onRetry callback that takes the attempt number as the retry count
RetryAttemptCountingFirst(call) ==
  LET attempt == call.attempt + 1
  IN SendAttempt([call EXCEPT !.attempt = attempt,
                              !.retryCount = IF attempt > 1 THEN attempt
                                             ELSE @])

\* the function executeWithRetry hands to retryWithBackoff, up to its fetch:
\* attempt++, onRetry(attempt) when attempt > 1, executeHttp
RetryAttempt(call) ==
  LET attempt == call.attempt + 1
  IN SendAttempt([call EXCEPT !.attempt = attempt,
                              !.retryCount = IF attempt > 1 THEN attempt - 1
                                             ELSE @])

(***************************************************************************)
(* Actions.                                                                *)
(***************************************************************************)
\* executeToolCall(toolCallName, args) up to its first await: lookup, input
\* validation, executeWithRetry up to the first fetch
ExecuteToolCall(c, toolCallName, args) ==
  /\ pending > 0
  /\ calls[c].pc \notin {"sending", "waiting"}
  /\ \* call sites are interchangeable: a call takes the first free one
     \A d \in Callers : d < c => calls[d].pc \in {"sending", "waiting"}
  /\ pending' = pending - 1
  /\ output' = None
  /\ UNCHANGED <<classified, fleet, manifest, trial, built, harness, sdk, config>>
  /\ LET call == NewCall(toolCallName, args)
         found == FindOperationForToolCall(sdk, toolCallName)
     IN IF found = None
        THEN CatchAndRecord(c, call, UnknownOperationError(toolCallName))
        ELSE IF InputRejected(found[1], args)
        THEN CatchAndRecord(c, [call EXCEPT !.inputChecked = TRUE],
                            InputValidationError)
        ELSE LET operation == found[1]
                 started == [call EXCEPT
                               !.inputChecked = TRUE,
                               !.validated = TRUE,
                               !.shouldRetry = ShouldRetry(operation),
                               !.maxRetries = EffectiveMaxRetries(operation, config)]
             IN /\ calls' = [calls EXCEPT ![c] =
                               IF started.shouldRetry THEN RetryAttempt(started)
                               ELSE SendAttempt(started)]
                /\ UNCHANGED metrics

\* the fetch of a send attempt settles: the rest of executeHttp, then the
\* catch of retryWithBackoff or the end of executeToolCall
FetchSettles(c, settle) ==
  /\ calls[c].pc = "sending"
  /\ output' = None
  /\ UNCHANGED <<classified, fleet, manifest, trial, built, harness, sdk, config, pending>>
  /\ LET operation == FindOperationForToolCall(sdk, calls[c].name)[1]
         error == IF settle.kind = "response"
                  THEN HttpError(operation, settle.status)
                  ELSE FetchError(settle.code)
         ok == settle.kind = "response" /\ ResponseOk(settle.status)
         call == [calls[c] EXCEPT
                    !.settled = Some(settle),
                    !.allRetryable =
                      @ /\ ~ok /\ IsRetryableError(operation, error)]
     IN IF ok
        THEN RecordAndReturn(c, CheckOutput(call, operation,
                                            ParseBody(settle.body),
                                            config.enableLogging),
                             settle.status, ParseBody(settle.body))
        ELSE IF ~call.shouldRetry
        THEN CatchAndRecord(c, call, error)
        ELSE \* both branches of the isRetryableError test throw the error on
             \* to the catch of retryWithBackoff
             LET lastError == IF IsRetryableError(operation, error)
                              THEN error ELSE error
             IN IF LastAttempt(operation, call, lastError)
                THEN CatchAndRecord(c, call, lastError)
                ELSE LET delay == BackoffDelay(RetryBaseDelay, call.rbAttempt)
                     IN /\ calls' = [calls EXCEPT ![c] =
                                       [call EXCEPT !.pc = "waiting",
                                                    !.waits = @ + 1,
                                                    !.delays = Append(@, delay)]]
                        /\ UNCHANGED metrics

\* the backoff timer of retryWithBackoff fires: the next round of its loop
BackoffElapses(c) ==
  /\ calls[c].pc = "waiting"
  /\ calls' = [calls EXCEPT ![c] =
                 RetryAttempt([calls[c] EXCEPT !.rbAttempt = @ + 1])]
  /\ output' = None
  /\ UNCHANGED <<classified, fleet, manifest, trial, built, harness, sdk, config, metrics, pending>>

\* getMetrics
GetMetrics ==
  /\ output' = Some([op |-> "getMetrics", value |-> metrics])
  /\ UNCHANGED <<classified, fleet, manifest, trial, built, harness, sdk, config, metrics, calls, pending>>

\* Boolean.prototype.toString
BoolString(b) == IF b THEN "true" ELSE "false"

\* the header array of exportMetricsCSV
CsvHeaders ==
  <<"sessionId", "operationId", "startTime", "duration", "httpStatus",
    "retryCount", "success", "errorCode", "errorMessage">>

\* the texts of a list of strings
RECURSIVE Texts(_)
Texts(strs) ==
  IF strs = <<>> THEN <<>> ELSE <<Text(Head(strs))>> \o Texts(Tail(strs))

\* text.replace(/"/g, '""')
RECURSIVE EscapeQuotes(_)
EscapeQuotes(text) ==
  IF text = <<>> THEN <<>>
  ELSE (IF Head(text) = Quote THEN <<Quote, Quote>> ELSE <<Head(text)>>)
       \o EscapeQuotes(Tail(text))

\* the cell array exportMetricsCSV makes of one record
CsvRow(sessionId, op) ==
  <<Text(sessionId),
    Text(op.operationId),
    Text(ToString(op.startTime)),
    Text(ToString(op.duration)),
    IF op.httpStatus = None THEN <<>> ELSE Text(StatusString(op.httpStatus[1])),
    Text(ToString(op.retryCount)),
    Text(BoolString(op.success)),
    IF op.errorCode = None THEN <<>> ELSE Text(op.errorCode[1]),
    EscapeQuotes(IF op.errorMessage = None THEN <<>> ELSE op.errorMessage[1])>>

\* cells.join(","), on texts
RECURSIVE JoinCells(_)
JoinCells(cells) ==
  IF cells = <<>> THEN <<>>
  ELSE IF Len(cells) = 1 THEN Head(cells)
  ELSE Head(cells) \o <<Comma>> \o JoinCells(Tail(cells))

\* row.map((cell) => `"${cell}"`)
QuoteCells(row) == [i \in 1..Len(row) |-> <<Quote>> \o row[i] \o <<Quote>>]

\* the text exportMetricsCSV returns, as its lines
MetricsCsv(m) ==
  <<JoinCells(Texts(CsvHeaders))>>
  \o [i \in 1..Len(m.operations) |->
        JoinCells(QuoteCells(CsvRow(m.sessionId, m.operations[i])))]

\* an export that hands the records over and empties the session's list
ExportMetricsCSVDraining ==
  /\ output' = Some([op |-> "exportMetricsCSV", value |-> MetricsCsv(metrics)])
  /\ metrics' = [metrics EXCEPT !.operations = <<>>]
  /\ UNCHANGED <<classified, fleet, manifest, trial, built, harness, sdk, config, calls, pending>>

\* exportMetricsCSV
ExportMetricsCSV ==
  /\ output' = Some([op |-> "exportMetricsCSV", value |-> MetricsCsv(metrics)])
  /\ UNCHANGED <<classified, fleet, manifest, trial, built, harness, sdk, config, metrics, calls, pending>>

\* a resetMetrics that zeroes the counters and keeps the records
ResetMetricsKeepingRecords ==
  /\ metrics' = [NewMetrics(GenerateSessionId) EXCEPT
                   !.operations = metrics.operations]
  /\ output' = None
  /\ UNCHANGED <<classified, fleet, manifest, trial, built, harness, sdk, config, calls, pending>>

\* resetMetrics
ResetMetrics ==
  /\ metrics' = NewMetrics(GenerateSessionId)
  /\ output' = None
  /\ UNCHANGED <<classified, fleet, manifest, trial, built, harness, sdk, config, calls, pending>>

(***************************************************************************)
(* Initial states: the runner after its constructor.                       *)
(***************************************************************************)
\* the runner configurations drawn
RunnerConfigs(metricsFlags) ==
  [maxRetries : {None} \cup {Some(n) : n \in 0..MaxConfigRetries},
   enableMetrics : metricsFlags, enableLogging : {FALSE}]

\* documents of one operation, over every retry policy and error list
PolicySdks ==
  {<<Operation("getItem", "GET", <<"items", "{id}">>, {"id"}, retry, errors)>> :
     retry \in {None} \cup {Some(r) : r \in RetryConfig},
     errors \in ErrorLists}

\* a document of two operations: one retried once, one without retry entry
\* whose schema leaves the argument of its path token optional
DemoSdk ==
  <<Operation("getItem", "GET", <<"items", "{id}">>, {"id"},
              Some([strategy |-> Some("exponentialBackoff"),
                    maxRetries |-> Some(1), initialDelayMs |-> None]),
              <<ErrorPattern("404", Some(FALSE))>>),
    Operation("listItems", "GET", <<"users", "{id}", "items">>, {}, None,
              <<>>)>>

\* one call on a runner over any policy
InitPolicy ==
  /\ sdk \in PolicySdks
  /\ config \in RunnerConfigs({TRUE})
  /\ metrics = NewMetrics(GenerateSessionId)
  /\ calls = [c \in Callers |-> IdleCall]
  /\ output = None
  /\ pending = 1
  /\ built = None
  /\ harness = None
  /\ classified = None
  /\ fleet = None
  /\ manifest = None
  /\ trial = None

\* a session of several, possibly overlapping, calls on the demo document
InitSession ==
  /\ sdk = DemoSdk
  /\ config \in [maxRetries : {None}, enableMetrics : BOOLEAN,
                 enableLogging : {FALSE}]
  /\ metrics = NewMetrics(GenerateSessionId)
  /\ calls = [c \in Callers |-> IdleCall]
  /\ output = None
  /\ pending = MaxCalls
  /\ built = None
  /\ harness = None
  /\ classified = None
  /\ fleet = None
  /\ manifest = None
  /\ trial = None

Init == InitPolicy \/ InitSession

Next ==
  \/ \E c \in Callers, n \in ToolNames, a \in ArgObjects :
       ExecuteToolCall(c, n, a)
  \/ \E c \in Callers, r \in Responses : FetchSettles(c, r)
  \/ \E c \in Callers : BackoffElapses(c)
  \/ GetMetrics
  \/ ExportMetricsCSV
  \/ ResetMetrics

Spec == Init /\ [][Next]_vars

SpecPolicy == InitPolicy /\ [][Next]_vars

\* the steps of the calls and of resetMetrics, without the two readers
NextCalls ==
  \/ \E c \in Callers, n \in ToolNames, a \in ArgObjects :
       ExecuteToolCall(c, n, a)
  \/ \E c \in Callers, r \in Responses : FetchSettles(c, r)
  \/ \E c \in Callers : BackoffElapses(c)
  \/ ResetMetrics

\* one call on a runner whose every fetch settles and whose every backoff
\* timer fires
SpecPolicyFair ==
  /\ InitPolicy
  /\ [][NextCalls]_vars
  /\ \A c \in Callers :
       /\ WF_vars(\E r \in Responses : FetchSettles(c, r))
       /\ WF_vars(BackoffElapses(c))

SpecSession == InitSession /\ [][Next]_vars

(***************************************************************************)
(* A runner whose server answers with every kind of body: the operation    *)
(* getItem with or without an output schema, logging on or off.            *)
(***************************************************************************)
InitBodies ==
  /\ sdk \in {<<WithOutput(DemoSdk[1], schema)>> :
                schema \in {None} \cup {Some(o) : o \in OutputSchemas}}
  /\ config \in [maxRetries : {None}, enableMetrics : {TRUE},
                 enableLogging : BOOLEAN]
  /\ metrics = NewMetrics(GenerateSessionId)
  /\ calls = [c \in Callers |-> IdleCall]
  /\ output = None
  /\ pending = MaxCalls
  /\ built = None
  /\ harness = None
  /\ classified = None
  /\ fleet = None
  /\ manifest = None
  /\ trial = None

NextBodies ==
  \/ \E c \in Callers, a \in ArgObjects : ExecuteToolCall(c, "getItem", a)
  \/ \E c \in Callers, r \in BodyResponses : FetchSettles(c, r)
  \/ \E c \in Callers : BackoffElapses(c)

SpecBodies == InitBodies /\ [][NextBodies]_vars

(***************************************************************************)
(* buildHttpRequest on its own, over methods, path templates and argument  *)
(* objects.                                                                *)
(***************************************************************************)
\* the HTTP methods of an operation
Methods == {"GET", "DELETE", "POST", "PUT", "PATCH"}

\* the path templates drawn: without token, with one, with the same token
\* twice, with two tokens
PathTemplates ==
  {<<"items">>, <<"items", "{id}">>, <<"items", "{id}", "{id}">>,
   <<"users", "{id}", "items", "{q}">>}

\* the argument names drawn for buildHttpRequest
BuildArgNames == {"id", "q"}

\* the argument objects drawn for buildHttpRequest
BuildArgObjects ==
  UNION {[names -> JsonValues] : names \in SUBSET BuildArgNames}

\* the headers a caller gives the runner as authHeaders
CallerHeaders ==
  {None,
   Some(HeaderMap({<<"Authorization", "Bearer caller">>})),
   Some(HeaderMap({<<"Authorization", "Bearer caller">>,
                   <<"Content-Type", "text/plain">>}))}

\* the headers a document declares as auth.headers
DocumentHeaders ==
  {None,
   Some(HeaderMap({<<"Authorization", "Bearer document">>})),
   Some(HeaderMap({<<"Content-Type", "application/xml">>,
                   <<"X-Api-Key", "key">>}))}

\* the runner variables of a model that only builds requests
RunnerUnused ==
  /\ sdk = DemoSdk
  /\ config = [maxRetries |-> None, enableMetrics |-> TRUE,
              enableLogging |-> FALSE]
  /\ metrics = NewMetrics(GenerateSessionId)
  /\ calls = [c \in Callers |-> IdleCall]
  /\ output = None
  /\ pending = 0

\* the inputs of one buildHttpRequest call
InitBuild ==
  /\ RunnerUnused
  /\ harness = None
  /\ classified = None
  /\ fleet = None
  /\ manifest = None
  /\ trial = None
  /\ \E method \in Methods, path \in PathTemplates, args \in BuildArgObjects,
        slash \in BOOLEAN, authHeaders \in CallerHeaders,
        sdkAuthHeaders \in DocumentHeaders :
        built = [context |-> CreateExecutionContext(
                               sdkAuthHeaders,
                               [BaseUrl EXCEPT !.slash = slash], authHeaders),
                 operation |-> Operation("op", method, path, {}, None, <<>>),
                 args |-> args,
                 request |-> None]

\* buildHttpRequest(context, operation, args)
BuildRequest ==
  /\ built # None
  /\ built.request = None
  /\ built' = [built EXCEPT
                 !.request = Some(BuildHttpRequest(built.context,
                                                   built.operation,
                                                   built.args))]
  /\ UNCHANGED <<sdk, config, metrics, calls, output, pending, harness,
               classified, fleet, manifest, trial>>

NextBuild == BuildRequest

SpecBuild == InitBuild /\ [][NextBuild]_vars

(***************************************************************************)
(* extractErrorInfo on its own, over x-errors lists of several patterns.   *)
(***************************************************************************)
\* the longest x-errors list drawn
MaxPatterns == 3

\* the statuses of the failed responses drawn
ErrorStatuses == {400, 404, 429, 500, 503}

\* the patterns drawn: by code, by retryable flag, and with or without a
\* recovery hint under one of two categories
ErrorPatterns ==
  {[ErrorPattern(code, retryable) EXCEPT
      !.recoveryHint = kind.recoveryHint, !.category = kind.category] :
     code \in {"404", "500"},
     retryable \in {None, Some(TRUE), Some(FALSE)},
     kind \in {[recoveryHint |-> None, category |-> "client"],
               [recoveryHint |-> Some("Wait, then retry"),
                category |-> "server"]}}

\* the x-errors lists drawn
PatternLists == UNION {[1..n -> ErrorPatterns] : n \in 0..MaxPatterns}

\* the inputs of one extractErrorInfo call
InitClassify ==
  /\ RunnerUnused
  /\ built = None
  /\ harness = None
  /\ fleet = None
  /\ manifest = None
  /\ trial = None
  /\ \E errors \in PatternLists, httpStatus \in ErrorStatuses :
        classified = [operation |-> Operation("op", "GET", <<"items">>, {},
                                              None, errors),
                      httpStatus |-> httpStatus,
                      result |-> None]

\* extractErrorInfo(operation, httpStatus)
Classify ==
  /\ classified # None
  /\ classified.result = None
  /\ classified' = [classified EXCEPT
                      !.result = Some(ExtractErrorInfo(classified.operation,
                                                       classified.httpStatus))]
  /\ UNCHANGED <<sdk, config, metrics, calls, output, pending, built, harness,
                 fleet, manifest, trial>>

NextClassify == Classify

SpecClassify == InitClassify /\ [][NextClassify]_vars

(***************************************************************************)
(* The tool export of a document and the lookup of its tool names, over    *)
(* documents whose operation ids may repeat.                               *)
(***************************************************************************)
\* the longest operation list drawn
MaxOperations == 3

\* operationToOpenAITool (the description apart): the name is the opId, the
\* parameters are the input schema
OperationToOpenAITool(operation) ==
  [type |-> "function",
   function |-> [name |-> operation.opId,
                 parameters |-> [type |-> "object",
                                 required |-> operation.required]]]

\* an export that lists the tools last to first
AgentSDKToOpenAIToolsReversed(operations) ==
  [tools |-> [i \in 1..Len(operations) |->
                OperationToOpenAITool(operations[Len(operations) + 1 - i])],
   metadata |-> [operationCount |-> Len(operations)]]

\* agentSDKToOpenAITools: sdk.operations.map(operationToOpenAITool) and the
\* metadata (names, URL and date apart)
AgentSDKToOpenAITools(operations) ==
  [tools |-> [i \in 1..Len(operations) |->
                OperationToOpenAITool(operations[i])],
   metadata |-> [operationCount |-> Len(operations)]]

\* getOpenAITools
GetOpenAITools(operations) == AgentSDKToOpenAITools(operations).tools

\* the operations drawn for a document: three ids, each on two paths
ManifestOperations ==
  {Operation(opId, "GET", path, {}, None, <<>>) :
     opId \in {"getItem", "listItems", "createItem"},
     path \in {<<"items">>, <<"users">>}}

\* a document, before its export
InitManifest ==
  /\ RunnerUnused
  /\ built = None
  /\ harness = None
  /\ classified = None
  /\ fleet = None
  /\ trial = None
  /\ \E operations \in UNION {[1..n -> ManifestOperations] :
                                n \in 0..MaxOperations} :
        manifest = [operations |-> operations, exported |-> None,
                    resolved |-> None]

\* agentSDKToOpenAITools(sdk)
ExportTools ==
  /\ manifest # None
  /\ manifest.exported = None
  /\ manifest' = [manifest EXCEPT
                    !.exported = Some(AgentSDKToOpenAITools(manifest.operations))]
  /\ UNCHANGED <<sdk, config, metrics, calls, output, pending, built, harness,
                 classified, fleet, trial>>

\* findOperationForToolCall(context, name) for the name of the i-th tool
ResolveTool(i) ==
  /\ manifest # None
  /\ manifest.exported # None
  /\ manifest.resolved = None
  /\ i \in 1..Len(manifest.exported[1].tools)
  /\ manifest' = [manifest EXCEPT
                    !.resolved =
                      Some([tool |-> i,
                            operation |->
                              FindOperationForToolCall(
                                manifest.operations,
                                manifest.exported[1].tools[i].function.name)])]
  /\ UNCHANGED <<sdk, config, metrics, calls, output, pending, built, harness,
                 classified, fleet, trial>>

NextManifest ==
  \/ ExportTools
  \/ \E i \in 1..MaxOperations : ResolveTool(i)

SpecManifest == InitManifest /\ [][NextManifest]_vars

(***************************************************************************)
(* Several runner instances over one document. this.metrics is a reference *)
(* to an object: the objects are kept in a heap and a runner holds the     *)
(* place of its own. Each runner has one call at a time; the calls of      *)
(* different runners interleave.                                           *)
(***************************************************************************)
NumRunners == 2

\* resetMetrics calls over all runners
MaxResets == 1

\* executeToolCall invocations over all runners
FleetCalls == 3

Runners == 1..NumRunners

\* no runner constructed yet
EmptyFleet ==
  [heap |-> <<>>,
   resets |-> 0,
   left |-> FleetCalls,
   runners |-> [r \in Runners |->
                  [metrics |-> 0, call |-> IdleCall, made |-> <<>>]]]

\* a constructor that takes the metrics object of the first runner
ConstructSharing(fl, r) ==
  [fl EXCEPT
     !.heap = Append(@, NewMetrics(GenerateSessionId)),
     !.runners[r] = [metrics |-> 1, call |-> IdleCall, made |-> <<>>]]

\* new AgentSDKRunner(config): this.metrics = { ... } is a new object
Construct(fl, r) ==
  [fl EXCEPT
     !.heap = Append(@, NewMetrics(GenerateSessionId)),
     !.runners[r] = [metrics |-> Len(fl.heap) + 1, call |-> IdleCall,
                     made |-> <<>>]]

\* createRunner for each of the first n runners
RECURSIVE ConstructAll(_)
ConstructAll(n) ==
  IF n = 0 THEN EmptyFleet ELSE Construct(ConstructAll(n - 1), n)

\* the metrics object of runner r
MetricsOf(fl, r) == fl.heap[fl.runners[r].metrics]

\* an object no runner refers to any more: its place in the heap is empty
Collected == NewMetrics("")

\* the heap without the objects that no runner refers to
Collect(fl) ==
  [fl EXCEPT !.heap =
     [i \in 1..Len(fl.heap) |->
        IF \E r \in Runners : fl.runners[r].metrics = i THEN fl.heap[i]
        ELSE Collected]]

\* recordExecution on runner r, and the end of its call: its locals are gone
FleetRecord(fl, r, ended, success, error) ==
  [fl EXCEPT
     !.heap[fl.runners[r].metrics] =
       RecordExecution(@, config.enableMetrics,
                       ExecutionRecord(ended, success, error)),
     !.runners[r].call = IdleCall,
     !.runners[r].made =
       Append(@, [operationId |-> ended.name, success |-> success,
                  retryCount |-> ended.sends - 1])]

\* runner.executeToolCall(toolCallName, args) up to its first await
FleetExecuteToolCall(r, toolCallName, args) ==
  /\ fleet # None
  /\ fleet.left > 0
  /\ fleet.runners[r].call.pc \notin {"sending", "waiting"}
  /\ LET fl == [fleet EXCEPT !.left = @ - 1]
         call == NewCall(toolCallName, args)
         found == FindOperationForToolCall(sdk, toolCallName)
     IN fleet' =
          IF found = None
          THEN FleetRecord(fl, r,
                           Rethrow(call, UnknownOperationError(toolCallName)),
                           FALSE, Some(UnknownOperationError(toolCallName)))
          ELSE IF InputRejected(found[1], args)
          THEN FleetRecord(fl, r,
                           Rethrow([call EXCEPT !.inputChecked = TRUE],
                                   InputValidationError),
                           FALSE, Some(InputValidationError))
          ELSE [fl EXCEPT !.runners[r].call =
                  IF ShouldRetry(found[1])
                  THEN RetryAttempt(
                         [call EXCEPT
                            !.inputChecked = TRUE, !.validated = TRUE,
                            !.shouldRetry = TRUE,
                            !.maxRetries = EffectiveMaxRetries(found[1], config)])
                  ELSE SendAttempt(
                         [call EXCEPT
                            !.inputChecked = TRUE, !.validated = TRUE,
                            !.maxRetries = EffectiveMaxRetries(found[1], config)])]
  /\ UNCHANGED <<sdk, config, metrics, calls, output, pending, built, harness,
                 classified, manifest, trial>>

\* the fetch of runner r's send attempt settles
FleetFetchSettles(r, settle) ==
  /\ fleet # None
  /\ fleet.runners[r].call.pc = "sending"
  /\ LET operation == FindOperationForToolCall(sdk, fleet.runners[r].call.name)[1]
         error == IF settle.kind = "response"
                  THEN HttpError(operation, settle.status)
                  ELSE FetchError(settle.code)
         ok == settle.kind = "response" /\ ResponseOk(settle.status)
         call == [fleet.runners[r].call EXCEPT !.settled = Some(settle)]
     IN fleet' =
          IF ok
          THEN FleetRecord(fleet, r,
                           ReturnData(CheckOutput(call, operation,
                                                  ParseBody(settle.body),
                                                  config.enableLogging),
                                      settle.status, ParseBody(settle.body)),
                           TRUE, None)
          ELSE IF ~call.shouldRetry \/ LastAttempt(operation, call, error)
          THEN FleetRecord(fleet, r, Rethrow(call, error), FALSE, Some(error))
          ELSE [fleet EXCEPT !.runners[r].call =
                  [call EXCEPT
                     !.pc = "waiting", !.waits = @ + 1,
                     !.delays = Append(@, BackoffDelay(RetryBaseDelay,
                                                       call.rbAttempt))]]
  /\ UNCHANGED <<sdk, config, metrics, calls, output, pending, built, harness,
                 classified, manifest, trial>>

\* the backoff timer of runner r's call fires
FleetBackoffElapses(r) ==
  /\ fleet # None
  /\ fleet.runners[r].call.pc = "waiting"
  /\ fleet' = [fleet EXCEPT !.runners[r].call =
                 RetryAttempt([@ EXCEPT !.rbAttempt = @ + 1])]
  /\ UNCHANGED <<sdk, config, metrics, calls, output, pending, built, harness,
                 classified, manifest, trial>>

\* runner.resetMetrics(): this.metrics = { ... } is a new object
FleetResetMetrics(r) ==
  /\ fleet # None
  /\ fleet.resets < MaxResets
  /\ fleet' = Collect([fleet EXCEPT
                         !.resets = @ + 1,
                         !.heap = Append(@, NewMetrics(GenerateSessionId)),
                         !.runners[r].metrics = Len(fleet.heap) + 1,
                         !.runners[r].made = <<>>])
  /\ UNCHANGED <<sdk, config, metrics, calls, output, pending, built, harness,
                 classified, manifest, trial>>

InitFleet ==
  /\ RunnerUnused
  /\ built = None
  /\ harness = None
  /\ classified = None
  /\ fleet = ConstructAll(NumRunners)
  /\ manifest = None
  /\ trial = None

\* the tool names the runners are called with: an operation that is
\* retried, and no operation
FleetNames == {"getItem", QuotedName}

\* what the fetch of a runner settles with
FleetResponses == {HttpResponse(200, ItemBody), HttpResponse(503, ItemBody)}

NextFleet ==
  \/ \E r \in Runners, n \in FleetNames, a \in ArgObjects :
       FleetExecuteToolCall(r, n, a)
  \/ \E r \in Runners, settle \in FleetResponses :
       FleetFetchSettles(r, settle)
  \/ \E r \in Runners : FleetBackoffElapses(r)
  \/ \E r \in Runners : FleetResetMetrics(r)

SpecFleet == InitFleet /\ [][NextFleet]_vars

(***************************************************************************)
(* The evaluation harness.                                                 *)
(***************************************************************************)
\* the most runEvaluation calls made on one harness
MaxPasses == 2

\* the ids of the tasks the harness is constructed with, in their order
Tasks == <<"T1", "T2">>

\* the names treatments are registered under
TreatmentNames == {"baseline-docs", "custom"}

\* the treatment classes
TreatmentTypes == {"BaselineTreatment", "AgentSDKTreatment"}

\* the treatmentName the executeTask of a treatment class writes into its runs
RunTreatmentName(type) ==
  IF type = "BaselineTreatment" THEN "baseline-docs" ELSE "agent-sdk"

\* what the body of one executeTask call meets: "pass", the completions
\* arrive and the task's successChecker accepts the result; "boom", a
\* completion request throws new Error("boom"); "unprintable", the
\* successChecker throws a value String() cannot convert. The tasks drawn:
\* the completions of the first may fail, the checker of the second may throw.
Behaviours(taskId) ==
  IF taskId = Tasks[1] THEN {"pass", "boom"} ELSE {"pass", "unprintable"}

\* completion.usage of the completions of one executeTask call
PromptTokens == 10
CompletionTokens == 5

\* the EvaluationRun an executeTask builds
EvaluationRun(type, taskId, success, error, tokensIn, tokensOut, httpCalls) ==
  [taskId |-> taskId,
   treatmentName |-> RunTreatmentName(type),
   duration |-> Now - Now,
   success |-> success,
   error |-> error,
   metrics |-> [tokensIn |-> tokensIn, tokensOut |-> tokensOut,
                totalTokens |-> tokensIn + tokensOut,
                httpCalls |-> httpCalls,
                invalidCalls |-> IF success THEN 0 ELSE 1,
                retries |-> 0,
                httpErrors |-> 0]]

\* error instanceof Error ? error.message : String(error), of the catch
\* blocks: the message, or the TypeError String() throws
ErrorMessage(behaviour) ==
  IF behaviour = "boom" THEN [message |-> Some("boom"), thrown |-> None]
  ELSE [message |-> None,
        thrown |-> Some("Cannot convert object to primitive value")]

\* BaselineTreatment.executeTask and AgentSDKTreatment.executeTask: the run
\* returned, or the message of the error the call rejects with
ExecuteTask(type, taskId, behaviour) ==
  IF behaviour = "pass"
  THEN [run |-> Some(EvaluationRun(type, taskId, TRUE, None, PromptTokens,
                                   CompletionTokens, 1)),
        thrown |-> None]
  ELSE LET caught == ErrorMessage(behaviour)
       IN IF caught.thrown # None
          THEN [run |-> None, thrown |-> caught.thrown]
          ELSE [run |-> Some(EvaluationRun(type, taskId, FALSE, caught.message,
                                           0, 0, 0)),
                thrown |-> None]

\* Map.prototype.set on a map kept as its entries in insertion order: a new
\* key goes to the end, an old key keeps its place
MapSet(map, key, value) ==
  IF \E i \in 1..Len(map) : map[i].key = key
  THEN [i \in 1..Len(map) |->
          IF map[i].key = key THEN [key |-> key, value |-> value] ELSE map[i]]
  ELSE Append(map, [key |-> key, value |-> value])

\* the greatest common divisor
RECURSIVE Gcd(_, _)
Gcd(a, b) == IF b = 0 THEN a ELSE Gcd(b, a % b)

\* a / b on numbers, as the fraction in lowest terms
Divide(a, b) ==
  IF a = 0 THEN [num |-> 0, den |-> 1]
  ELSE [num |-> a \div Gcd(a, b), den |-> b \div Gcd(a, b)]

\* the number 0 as a fraction
Zero == [num |-> 0, den |-> 1]

\* reduce((sum, run) => sum + run.metrics[field], 0)
RECURSIVE SumMetric(_, _)
SumMetric(treatmentRuns, field) ==
  IF treatmentRuns = <<>> THEN 0
  ELSE Head(treatmentRuns).metrics[field]
       + SumMetric(Tail(treatmentRuns), field)

\* reduce((sum, run) => sum + run.duration, 0)
RECURSIVE SumDuration(_)
SumDuration(treatmentRuns) ==
  IF treatmentRuns = <<>> THEN 0
  ELSE Head(treatmentRuns).duration + SumDuration(Tail(treatmentRuns))

\* treatmentRuns.filter((run) => run.success).length
RECURSIVE SuccessfulRuns(_)
SuccessfulRuns(treatmentRuns) ==
  IF treatmentRuns = <<>> THEN 0
  ELSE (IF Head(treatmentRuns).success THEN 1 ELSE 0)
       + SuccessfulRuns(Tail(treatmentRuns))

\* treatmentRuns.length > 0 ? total / treatmentRuns.length : 0
Average(total, length) == IF length > 0 THEN Divide(total, length) ELSE Zero

\* the summary entry generateReport computes from the runs it selected
SummaryEntry(treatmentRuns) ==
  [totalTasks |-> Len(treatmentRuns),
   successfulTasks |-> SuccessfulRuns(treatmentRuns),
   failedTasks |-> Len(treatmentRuns) - SuccessfulRuns(treatmentRuns),
   successRate |-> Average(SuccessfulRuns(treatmentRuns), Len(treatmentRuns)),
   avgDuration |-> Average(SumDuration(treatmentRuns), Len(treatmentRuns)),
   avgTokensIn |->
     Average(SumMetric(treatmentRuns, "tokensIn"), Len(treatmentRuns)),
   avgTokensOut |->
     Average(SumMetric(treatmentRuns, "tokensOut"), Len(treatmentRuns)),
   avgTotalTokens |->
     Average(SumMetric(treatmentRuns, "totalTokens"), Len(treatmentRuns)),
   totalHttpCalls |-> SumMetric(treatmentRuns, "httpCalls"),
   totalInvalidCalls |-> SumMetric(treatmentRuns, "invalidCalls"),
   totalRetries |-> SumMetric(treatmentRuns, "retries"),
   totalHttpErrors |-> SumMetric(treatmentRuns, "httpErrors")]

\* this.runs.filter((run) => run.treatmentName === treatmentName)
TreatmentRuns(runs, treatmentName) ==
  SelectSeq(runs, LAMBDA run : run.treatmentName = treatmentName)

\* summary[treatmentName] of generateReport: the entry of the runs the
\* filter selects (written so that the filter is evaluated once)
SummaryFor(runs, treatmentName) ==
  CHOOSE entry \in {SummaryEntry(treatmentRuns) :
                      treatmentRuns \in {TreatmentRuns(runs, treatmentName)}} :
    TRUE

\* generateReport: the summary over this.treatments.keys(). The report's
\* `runs` is this.runs itself, not a copy: `held` is what the array held when
\* the report was returned, `pass` the runEvaluation call that returned it.
GenerateReport(h) ==
  [treatments |-> [i \in 1..Len(h.treatments) |-> h.treatments[i].key],
   summary |-> [name \in {h.treatments[i].key : i \in 1..Len(h.treatments)} |->
                  SummaryFor(h.runs, name)],
   held |-> h.runs,
   pass |-> h.passes]

\* the harness after its constructor
NewHarness ==
  [treatments |-> <<>>, runs |-> <<>>, pc |-> "idle", task |-> 0,
   treatment |-> 0, passes |-> 0, executed |-> <<>>, logged |-> <<>>,
   raised |-> None, reports |-> <<>>, hung |-> FALSE, elapsed |-> FALSE]

\* a generateReport that takes the runs out of the run list
ReturnReportDrainingRuns(h) ==
  [h EXCEPT !.pc = "idle", !.task = 0, !.treatment = 0, !.runs = <<>>,
            !.reports = Append(@, GenerateReport(h))]

\* `return this.generateReport()`: the end of runEvaluation
ReturnReport(h) ==
  [h EXCEPT !.pc = "idle", !.task = 0, !.treatment = 0,
            !.reports = Append(@, GenerateReport(h))]

\* loops with the treatments outside and the tasks inside
NextExecuteTaskTreatmentsFirst(h, task, treatment) ==
  IF treatment > Len(h.treatments) \/ Len(h.treatments) = 0
  THEN ReturnReport(h)
  ELSE IF treatment = 0
  THEN [h EXCEPT !.pc = "awaiting", !.task = 1, !.treatment = 1]
  ELSE IF task < Len(Tasks)
  THEN [h EXCEPT !.pc = "awaiting", !.task = task + 1, !.treatment = treatment]
  ELSE IF treatment < Len(h.treatments)
  THEN [h EXCEPT !.pc = "awaiting", !.task = 1, !.treatment = treatment + 1]
  ELSE ReturnReport(h)

\* the loops of runEvaluation up to the next `await treatment.executeTask`:
\* the call that follows the one at (task, treatment), or the return
NextExecuteTask(h, task, treatment) ==
  IF task > Len(Tasks) \/ Len(h.treatments) = 0 THEN ReturnReport(h)
  ELSE IF treatment < Len(h.treatments)
  THEN [h EXCEPT !.pc = "awaiting", !.task = task, !.treatment = treatment + 1]
  ELSE IF task < Len(Tasks)
  THEN [h EXCEPT !.pc = "awaiting", !.task = task + 1, !.treatment = 1]
  ELSE ReturnReport(h)

\* the try block of runEvaluation after its await: this.runs.push(run)
PushRun(h, run) == [h EXCEPT !.runs = Append(@, run)]

\* a catch block that logs the message and throws the error on
CatchTreatmentRethrows(h, message) ==
  [h EXCEPT !.logged = Append(@, message), !.raised = Some(message)]

\* the catch block of runEvaluation: the message is logged
CatchTreatment(h, message) == [h EXCEPT !.logged = Append(@, message)]

\* addBaseline(name, apiKey, docsContent), before the first runEvaluation
AddBaseline(name) ==
  /\ harness # None
  /\ harness.pc = "idle" /\ harness.passes = 0
  /\ harness' = [harness EXCEPT
                   !.treatments = MapSet(@, name, "BaselineTreatment")]
  /\ harness' # harness
  /\ UNCHANGED <<sdk, config, metrics, calls, output, pending, built,
               classified, fleet, manifest, trial>>

\* addAgentSDK(name, apiKey, sdk, baseUrl), before the first runEvaluation
AddAgentSDK(name) ==
  /\ harness # None
  /\ harness.pc = "idle" /\ harness.passes = 0
  /\ harness' = [harness EXCEPT
                   !.treatments = MapSet(@, name, "AgentSDKTreatment")]
  /\ harness' # harness
  /\ UNCHANGED <<sdk, config, metrics, calls, output, pending, built,
               classified, fleet, manifest, trial>>

\* runEvaluation() up to its first await, or to its return when there is
\* nothing to run
RunEvaluation ==
  /\ harness # None
  /\ harness.pc = "idle" /\ harness.passes < MaxPasses
  /\ harness' = NextExecuteTask([harness EXCEPT !.passes = @ + 1], 1, 0)
  /\ UNCHANGED <<sdk, config, metrics, calls, output, pending, built,
               classified, fleet, manifest, trial>>

\* the executeTask runEvaluation awaits settles: the rest of the try block
\* or the catch block, then the loops up to the next await or the return
ExecuteTaskSettles(behaviour) ==
  /\ harness # None
  /\ harness.pc = "awaiting"
  /\ ~harness.hung
  /\ behaviour \in Behaviours(Tasks[harness.task])
  /\ LET treatment == harness.treatments[harness.treatment]
         settled == ExecuteTask(treatment.value, Tasks[harness.task], behaviour)
         called == [harness EXCEPT
                      !.executed =
                        Append(@, [pass |-> harness.passes,
                                   taskId |-> Tasks[harness.task],
                                   treatment |-> treatment.key,
                                   run |-> settled.run,
                                   thrown |-> settled.thrown])]
         handled == IF settled.thrown = None
                    THEN PushRun(called, settled.run[1])
                    ELSE CatchTreatment(called, settled.thrown[1])
     IN harness' =
          IF handled.raised # None
          THEN \* an error that leaves the catch block ends runEvaluation
               [handled EXCEPT !.pc = "idle", !.task = 0, !.treatment = 0]
          ELSE NextExecuteTask(handled, harness.task, harness.treatment)
  /\ UNCHANGED <<sdk, config, metrics, calls, output, pending, built,
               classified, fleet, manifest, trial>>

\* the harness after its constructor, given the tasks
InitHarness ==
  /\ RunnerUnused
  /\ built = None
  /\ classified = None
  /\ fleet = None
  /\ manifest = None
  /\ trial = None
  /\ harness = NewHarness

NextHarness ==
  \/ \E name \in TreatmentNames : AddBaseline(name)
  \/ \E name \in TreatmentNames : AddAgentSDK(name)
  \/ RunEvaluation
  \/ \E behaviour \in {"pass", "boom", "unprintable"} :
       ExecuteTaskSettles(behaviour)

SpecHarness == InitHarness /\ [][NextHarness]_vars

\* every executeTask the harness awaits settles
SpecHarnessFair ==
  /\ SpecHarness
  /\ WF_vars(\E behaviour \in {"pass", "boom", "unprintable"} :
               ExecuteTaskSettles(behaviour))

(***************************************************************************)
(* The harness with treatments that may hang: an executeTask call whose    *)
(* promise never settles. Time passes all the same.                        *)
(***************************************************************************)
\* EvaluationTask.timeoutMs of the tasks
TaskTimeoutMs == [T1 |-> 30000, T2 |-> 20000]

\* the executeTask call runEvaluation awaits is one that never settles
ExecuteTaskHangs ==
  /\ harness # None
  /\ harness.pc = "awaiting"
  /\ ~harness.hung
  /\ harness' = [harness EXCEPT !.hung = TRUE]
  /\ UNCHANGED <<sdk, config, metrics, calls, output, pending, built,
               classified, fleet, manifest, trial>>

\* timeoutMs of the task have passed since the executeTask call began:
\* runEvaluation has set no timer and nothing reads timeoutMs
TaskTimeoutElapses ==
  /\ harness # None
  /\ harness.pc = "awaiting"
  /\ harness.hung /\ ~harness.elapsed
  /\ TaskTimeoutMs[Tasks[harness.task]] > 0
  /\ harness' = [harness EXCEPT !.elapsed = TRUE]
  /\ UNCHANGED <<sdk, config, metrics, calls, output, pending, built,
               classified, fleet, manifest, trial>>

NextHarnessHang ==
  \/ NextHarness
  \/ ExecuteTaskHangs
  \/ TaskTimeoutElapses

\* every executeTask call that is not hung settles, and time passes
SpecHarnessHang ==
  /\ InitHarness
  /\ [][NextHarnessHang]_vars
  /\ WF_vars(\E behaviour \in {"pass", "boom", "unprintable"} :
               ExecuteTaskSettles(behaviour))
  /\ WF_vars(TaskTimeoutElapses)


(***************************************************************************)
(* Vocabulary of the properties.                                           *)
(***************************************************************************)
\* the call of call site c has ended, by returning or by throwing
Finished(c) == calls[c].pc \in {"returned", "threw"}

\* the call of call site c names an operation of the document
Known(c) ==
  /\ calls[c].pc # "idle"
  /\ FindOperationForToolCall(sdk, calls[c].name) # None

\* the operation the call of call site c names
OperationOf(c) == FindOperationForToolCall(sdk, calls[c].name)[1]

\* the operation of call site c has a retry entry that declares maxRetries
DeclaresMaxRetries(c) ==
  /\ Known(c)
  /\ OperationOf(c).retry # None
  /\ OperationOf(c).retry[1].maxRetries # None

\* the maxRetries the policy of the operation of call site c declares
PolicyMaxRetries(c) == OperationOf(c).retry[1].maxRetries[1]

\* the operation of call site c has a retry entry with a strategy other than "none"
RetryEnabled(c) ==
  /\ Known(c)
  /\ OperationOf(c).retry # None
  /\ OperationOf(c).retry[1].strategy # Some("none")

\* the operation of call site c has a retry entry with this strategy
HasStrategy(c, strategy) ==
  /\ Known(c)
  /\ OperationOf(c).retry # None
  /\ OperationOf(c).retry[1].strategy = Some(strategy)

\* the arguments of the call of call site c fail the operation's input schema
InvalidInput(c) ==
  /\ Known(c)
  /\ ~(OperationOf(c).required \subseteq DOMAIN calls[c].args)

\* the operation declares an error pattern with retryable: false for the status
DeclaredNotRetryable(operation, status) ==
  \E i \in 1..Len(operation.errors) :
    /\ operation.errors[i].code = StatusString(status)
    /\ operation.errors[i].retryable = Some(FALSE)
    /\ \A j \in 1..(i - 1) : operation.errors[j].code # StatusString(status)

\* the base delay of the policy of call site c; the runner's own base when
\* the policy declares none
PolicyBaseDelay(c) ==
  IF OperationOf(c).retry[1].initialDelayMs = None THEN RetryBaseDelay
  ELSE OperationOf(c).retry[1].initialDelayMs[1]

(***************************************************************************)
(* Properties.                                                             *)
(***************************************************************************)
\* C1: with retry enabled and maxRetries = N declared, a call whose every
\* send attempt yields a retryable failure makes exactly N+1 send attempts
\* and then throws: it never makes more, and it has made N+1 when it ends.
C1_ExactlyNPlusOneAttempts ==
  \A c \in Callers :
    (RetryEnabled(c) /\ DeclaresMaxRetries(c) /\ calls[c].validated
       /\ calls[c].allRetryable)
    => /\ calls[c].sends <= PolicyMaxRetries(c) + 1
       /\ Finished(c) =>
            calls[c].pc = "threw" /\ calls[c].sends = PolicyMaxRetries(c) + 1

\* C2: with retry enabled, a call whose (first) response has a status that a
\* declared error pattern marks retryable: false throws after that one send
\* attempt, whatever maxRetries is.
C2_NonRetryableThrowsAfterOneAttempt ==
  \A c \in Callers :
    (RetryEnabled(c) /\ calls[c].sends = 1 /\ calls[c].settled # None
       /\ calls[c].settled[1].kind = "response"
       /\ DeclaredNotRetryable(OperationOf(c), calls[c].settled[1].status))
    => calls[c].pc = "threw"

\* C3: a call whose arguments fail input validation makes no send attempt
\* and no backoff wait, throws, and (metrics enabled) appends one record with
\* success = false and retryCount = 0.
C3_InvalidInputNeverSends ==
  \A c \in Callers :
    InvalidInput(c)
    => /\ calls[c].pc = "threw"
       /\ calls[c].sends = 0
       /\ calls[c].waits = 0
       /\ config.enableMetrics =>
            /\ Len(calls[c].appended) = 1
            /\ calls[c].appended[1].success = FALSE
            /\ calls[c].appended[1].retryCount = 0

\* C3 witness: an operation with retry enabled was called with invalid
\* arguments on a runner with metrics enabled, and the call has thrown.
C3_Witness ==
  \E c \in Callers :
    /\ InvalidInput(c) /\ RetryEnabled(c) /\ config.enableMetrics
    /\ calls[c].pc = "threw"
    /\ Len(calls[c].appended) = 1

\* C4: a finished call has appended exactly one record when metrics are
\* enabled, whatever its number of send attempts, and a call in flight none;
\* with metrics disabled no call appends a record and the session stays as
\* constructed.
C4_OneRecordPerCall ==
  /\ \A c \in Callers :
       Len(calls[c].appended) =
         IF Finished(c) /\ config.enableMetrics THEN 1 ELSE 0
  /\ ~config.enableMetrics => metrics = NewMetrics(GenerateSessionId)

\* C4 witness: a call that made several send attempts has finished with its
\* one record.
C4_Witness ==
  \E c \in Callers :
    /\ Finished(c) /\ calls[c].sends >= 2
    /\ Len(calls[c].appended) = 1

\* C5: totalOperations == successfulOperations + failedOperations in every
\* state of the session.
C5_TotalIsSuccessPlusFailed ==
  metrics.totalOperations =
    metrics.successfulOperations + metrics.failedOperations

\* C5 witness: a session that holds a successful and a failed call, just
\* exported.
C5_Witness ==
  /\ metrics.successfulOperations >= 1
  /\ metrics.failedOperations >= 1
  /\ output # None

\* C6: a call returns only after a 2xx response, every other ended call has
\* thrown; and the error thrown after a non-2xx response carries the HTTP
\* status, the classified code and the classified retryable flag.
C6_FailureAlwaysThrown ==
  \A c \in Callers :
    /\ calls[c].pc = "returned" =>
         /\ calls[c].settled # None
         /\ calls[c].settled[1].kind = "response"
         /\ ResponseOk(calls[c].settled[1].status)
    /\ calls[c].pc = "threw" => calls[c].error # None
    /\ (Finished(c) /\ calls[c].settled # None
          /\ calls[c].settled[1].kind = "response"
          /\ ~ResponseOk(calls[c].settled[1].status))
       => /\ calls[c].pc = "threw"
          /\ calls[c].error # None
          /\ LET status == calls[c].settled[1].status
                 info == ExtractErrorInfo(OperationOf(c), status)
                 error == calls[c].error[1]
             IN /\ error.httpStatus = Some(status)
                /\ error.errorCode = Some(info.code)
                /\ error.retryable = Some(info.retryable)

\* C6 witness: a call ended after retries on a non-2xx response whose status
\* a declared pattern classifies, and threw.
C6_Witness ==
  \E c \in Callers :
    /\ calls[c].pc = "threw" /\ calls[c].sends >= 2
    /\ calls[c].settled = Some(HttpResponse(404, ItemBody))
    /\ OperationOf(c).errors = <<ErrorPattern("404", Some(TRUE))>>
    /\ calls[c].error[1].retryable = Some(TRUE)

\* C7: a call on an operation whose policy declares maxRetries = N makes at
\* most N+1 send attempts and at most N backoff waits.
C7_AtMostNPlusOneAttempts ==
  \A c \in Callers :
    DeclaresMaxRetries(c)
    => /\ calls[c].sends <= PolicyMaxRetries(c) + 1
       /\ calls[c].waits <= PolicyMaxRetries(c)

\* C8: a call on an operation without retry entry, or with strategy "none",
\* that passed validation makes exactly one send attempt and never waits for
\* a backoff.
C8_NoRetryOneAttempt ==
  \A c \in Callers :
    (Known(c) /\ calls[c].validated /\ ~RetryEnabled(c))
    => /\ calls[c].sends = 1
       /\ calls[c].waits = 0
       /\ calls[c].pc # "waiting"

\* C8 witness: a call on an operation with strategy "none" ended on a 503
\* response after its single attempt.
C8_Witness ==
  \E c \in Callers :
    /\ HasStrategy(c, "none") /\ calls[c].pc = "threw"
    /\ calls[c].settled = Some(HttpResponse(503, ItemBody))
    /\ calls[c].sends = 1

\* C9: for the exponential strategy with the policy's base delay d, the wait
\* after the k-th failed attempt is d * 2^(k-1).
C9_ExponentialFromPolicyBase ==
  \A c \in Callers :
    (HasStrategy(c, "exponentialBackoff")
       /\ OperationOf(c).retry[1].initialDelayMs # None)
    => \A k \in 1..Len(calls[c].delays) :
         calls[c].delays[k] =
           OperationOf(c).retry[1].initialDelayMs[1] * Pow2(k - 1)

\* C10: the waits follow the declared strategy: the wait after the k-th
\* failed attempt is base * k for the linear strategy and base for the fixed
\* strategy, base being the first wait of the call.
C10_LinearAndFixedSchedules ==
  \A c \in Callers :
    /\ HasStrategy(c, "linearBackoff") =>
         \A k \in 1..Len(calls[c].delays) :
           calls[c].delays[k] = calls[c].delays[1] * k
    /\ HasStrategy(c, "fixedDelay") =>
         \A k \in 1..Len(calls[c].delays) :
           calls[c].delays[k] = calls[c].delays[1]

\* the path template of the operation of call site c has a `{name}` token
\* for which the arguments of the call hold no value
UnresolvedToken(c) ==
  /\ Known(c)
  /\ \E key \in ArgNames :
       /\ \E i \in 1..Len(OperationOf(c).path) :
            OperationOf(c).path[i] = "{" \o key \o "}"
       /\ key \notin DOMAIN calls[c].args

\* the tool name of the call of call site c is the opId of no operation
UnknownName(c) ==
  /\ calls[c].pc # "idle"
  /\ \A k \in 1..Len(sdk) : sdk[k].opId # calls[c].name

\* C11: a call whose path template has a `{name}` token without an argument
\* value fails with a local error: no send attempt goes out, nothing is
\* retried, and the failed record has retryCount 0.
C11_UnresolvedTokenFailsLocally ==
  \A c \in Callers :
    UnresolvedToken(c) =>
      /\ calls[c].pc = "threw"
      /\ calls[c].sends = 0
      /\ calls[c].waits = 0
      /\ config.enableMetrics =>
           /\ Len(calls[c].appended) = 1
           /\ ~calls[c].appended[1].success
           /\ calls[c].appended[1].retryCount = 0

\* C12: a call with a name that is the opId of no operation throws without
\* input validation, send attempt or retry; with metrics enabled it appends
\* exactly one failed record, with retryCount 0.
C12_UnknownNameThrowsAtOnce ==
  \A c \in Callers :
    UnknownName(c) =>
      /\ calls[c].pc = "threw"
      /\ ~calls[c].inputChecked
      /\ calls[c].sends = 0
      /\ calls[c].waits = 0
      /\ calls[c].error # None
      /\ config.enableMetrics =>
           /\ Len(calls[c].appended) = 1
           /\ ~calls[c].appended[1].success
           /\ calls[c].appended[1].retryCount = 0
           /\ calls[c].appended[1].operationId = calls[c].name
      /\ ~config.enableMetrics => calls[c].appended = <<>>

\* a call with an unknown name has thrown on a runner that keeps metrics
C12_Witness ==
  \E c \in Callers :
    /\ UnknownName(c)
    /\ calls[c].pc = "threw"
    /\ config.enableMetrics
    /\ Len(metrics.operations) > 0

\* the request buildHttpRequest returned for the inputs in `built`
BuiltRequest == built.request[1]

\* the argument is in the URL path: at a token of its name, encoded
InPath(key) ==
  \E i \in 1..Len(built.operation.path) :
    /\ built.operation.path[i] = "{" \o key \o "}"
    /\ BuiltRequest.url.path[i] =
         (IF built.args[key].text = "a b" THEN "a%20b"
          ELSE built.args[key].text)

\* the argument is in the query string, as its text
InQuery(key) ==
  /\ key \in DOMAIN BuiltRequest.url.query
  /\ BuiltRequest.url.query[key] = built.args[key].text

\* the argument is in the JSON body, as its value
InBody(key) ==
  /\ BuiltRequest.body # None
  /\ key \in DOMAIN BuiltRequest.body[1]
  /\ BuiltRequest.body[1][key] = built.args[key]

\* the argument is named nowhere in the query string or the body
NotInQuery(key) == key \notin DOMAIN BuiltRequest.url.query
NotInBody(key) ==
  BuiltRequest.body = None \/ key \notin DOMAIN BuiltRequest.body[1]

\* the path template has a token of this name
HasToken(key) ==
  \E i \in 1..Len(built.operation.path) :
    built.operation.path[i] = "{" \o key \o "}"

\* C18: buildHttpRequest places every argument in exactly one place: in the
\* URL path when the template has a token of its name, else in the query
\* string for GET and DELETE and in the JSON body for the other methods; a
\* GET or DELETE request has no body; for another method whose arguments
\* match no token the URL path is the template.
C18_EveryArgumentInOnePlace ==
  (built # None /\ built.request # None) =>
    LET query == built.operation.method \in {"GET", "DELETE"}
    IN /\ \A key \in DOMAIN built.args :
            IF HasToken(key)
            THEN InPath(key) /\ NotInQuery(key) /\ NotInBody(key)
            ELSE IF query
            THEN InQuery(key) /\ NotInBody(key)
            ELSE InBody(key) /\ NotInQuery(key)
       /\ query => BuiltRequest.body = None
       /\ (~query /\ \A key \in DOMAIN built.args : ~HasToken(key)) =>
            BuiltRequest.url.path = built.operation.path
       /\ BuiltRequest.method = built.operation.method

\* a GET request was built from an argument for a token and one for the
\* query string
C18_Witness ==
  /\ built # None
  /\ built.request # None
  /\ built.operation.method = "GET"
  /\ \E k1, k2 \in DOMAIN built.args : HasToken(k1) /\ ~HasToken(k2)

\* the last operation on the runner was an exportMetricsCSV
Exported == output # None /\ output[1].op = "exportMetricsCSV"

\* C19: exportMetricsCSV is read-only and idempotent: an export changes
\* neither the session's metrics nor any call, and an export that follows an
\* export at once returns the same text.
C19_ExportReadOnlyIdempotent ==
  [][(output' # None /\ output'[1].op = "exportMetricsCSV") =>
       /\ metrics' = metrics
       /\ calls' = calls
       /\ output'[1].value = MetricsCsv(metrics)
       /\ Exported => output' = output]_vars

\* a session with a record has been exported
C19_Witness ==
  /\ Exported
  /\ Len(metrics.operations) > 0
  /\ Len(output[1].value) = Len(metrics.operations) + 1

\* the number of fields a CSV reader finds in a line: one more than the
\* commas outside quoted fields, where a quote opens or closes a quoted field
\* and a doubled quote inside one closes and reopens it; 0 when the line ends
\* inside a quoted field
RECURSIVE FieldCount(_, _)
FieldCount(line, inQuotes) ==
  IF line = <<>> THEN (IF inQuotes THEN 0 ELSE 1)
  ELSE IF Head(line) = Quote THEN FieldCount(Tail(line), ~inQuotes)
  ELSE LET rest == FieldCount(Tail(line), inQuotes)
       IN IF Head(line) = Comma /\ ~inQuotes /\ rest # 0 THEN rest + 1
          ELSE rest

\* the width of the export: its nine columns
NumColumns == Len(CsvHeaders)

\* C20: an export has one header line and exactly one row per record, in
\* append order, and every row parses into the nine fields of the header,
\* whatever quote or delimiter its operation id, error code or error message
\* holds.
C20_RowsParseIntoNineFields ==
  Exported =>
    LET lines == output[1].value
    IN /\ Len(lines) = Len(metrics.operations) + 1
       /\ FieldCount(lines[1], FALSE) = NumColumns
       /\ \A i \in 1..Len(metrics.operations) :
            FieldCount(lines[i + 1], FALSE) = NumColumns

\* the executeTask calls of runEvaluation call number `pass`, in call order
ExecutedIn(pass) == SelectSeq(harness.executed, LAMBDA e : e.pass = pass)

\* the runs the executeTask calls of a call log returned, in call order
RECURSIVE RunsOf(_)
RunsOf(log) ==
  IF log = <<>> THEN <<>>
  ELSE (IF Head(log).run # None THEN <<Head(log).run[1]>> ELSE <<>>)
       \o RunsOf(Tail(log))

\* the (task, treatment) pairs of the harness: tasks in the order given,
\* within a task the treatments in registration order
ExpectedPairs ==
  LET n == Len(harness.treatments)
  IN [k \in 1..(Len(Tasks) * n) |->
        [taskId |-> Tasks[((k - 1) \div n) + 1],
         treatment |-> harness.treatments[((k - 1) % n) + 1].key]]

\* the (task, treatment) pairs of a call log
PairsOf(log) ==
  [k \in 1..Len(log) |->
     [taskId |-> log[k].taskId, treatment |-> log[k].treatment]]

\* C13: when the executeTask of a treatment throws for a task, the report of
\* that runEvaluation call holds a run of that task with success = false and
\* the thrown message as its error.
C13_ThrowBecomesFailedRun ==
  harness # None =>
    \A r \in 1..Len(harness.reports) :
      \A k \in 1..Len(harness.executed) :
        LET e == harness.executed[k]
            report == harness.reports[r]
        IN (e.pass = report.pass /\ e.thrown # None) =>
             \E i \in 1..Len(report.held) :
               /\ report.held[i].taskId = e.taskId
               /\ ~report.held[i].success
               /\ report.held[i].error = e.thrown

\* every runEvaluation call that has returned made one executeTask call for
\* every (task, treatment) pair
EveryPairExecuted ==
  \A r \in 1..Len(harness.reports) :
    Len(ExecutedIn(harness.reports[r].pass)) =
      Len(Tasks) * Len(harness.treatments)

\* every runEvaluation call that is not running has returned its report
EveryPassReturned ==
  harness.pc = "idle" => Len(harness.reports) = harness.passes

OwnRuns(name, pass) ==
  RunsOf(SelectSeq(harness.executed,
                   LAMBDA e : e.treatment = name /\ e.pass <= pass))

\* the number of successful runs among these runs
Successes(runs) == Len(SelectSeq(runs, LAMBDA run : run.success))

\* the sum of a run metric over these runs
MetricTotal(runs, field) ==
  LET RECURSIVE upTo(_)
      upTo(k) == IF k = 0 THEN 0 ELSE runs[k].metrics[field] + upTo(k - 1)
  IN upTo(Len(runs))

\* C15: in every report, the summary entry of each registered treatment
\* agrees with the runs of that treatment: totalTasks is their number,
\* successfulTasks + failedTasks = totalTasks, successRate is
\* successfulTasks / totalTasks (0 without runs; 1 when all succeeded, 0 when
\* all failed), and the totals are the sums over those runs.
C15_SummaryAgreesWithOwnRuns ==
  harness # None =>
    \A r \in 1..Len(harness.reports) :
      LET report == harness.reports[r]
      IN \A i \in 1..Len(report.treatments) :
           LET entry == report.summary[report.treatments[i]]
               own == OwnRuns(report.treatments[i], report.pass)
           IN /\ entry.totalTasks = Len(own)
              /\ entry.successfulTasks = Successes(own)
              /\ entry.successfulTasks + entry.failedTasks = entry.totalTasks
              /\ entry.successRate.num * entry.totalTasks =
                   entry.successfulTasks * entry.successRate.den
              /\ Len(own) = 0 => entry.successRate.num = 0
              /\ entry.totalHttpCalls = MetricTotal(own, "httpCalls")
              /\ entry.totalInvalidCalls = MetricTotal(own, "invalidCalls")
              /\ entry.totalRetries = MetricTotal(own, "retries")
              /\ entry.totalHttpErrors = MetricTotal(own, "httpErrors")

\* C16: a runEvaluation call makes one executeTask call per (task,
\* treatment) pair, one after the other: tasks in the order given, within a
\* task the treatments in registration order; the runs are in the report in
\* the order of the calls that returned them.
C16_PairsInOrder ==
  harness # None =>
    /\ \A pass \in 1..harness.passes :
         LET pairs == PairsOf(ExecutedIn(pass))
         IN /\ Len(pairs) <= Len(ExpectedPairs)
            /\ pairs = SubSeq(ExpectedPairs, 1, Len(pairs))
            /\ (pass < harness.passes \/ harness.pc = "idle") =>
                 pairs = ExpectedPairs
    /\ harness.pc = "awaiting" =>
         Len(ExecutedIn(harness.passes)) =
           (harness.task - 1) * Len(harness.treatments) + harness.treatment - 1
    /\ harness.runs = RunsOf(harness.executed)
    /\ \A r \in 1..Len(harness.reports) :
         harness.reports[r].held =
           RunsOf(SelectSeq(harness.executed,
                            LAMBDA e : e.pass <= harness.reports[r].pass))

\* a runEvaluation call over two treatments has returned its report
C16_Witness ==
  /\ harness # None
  /\ Len(harness.treatments) > 1
  /\ Len(harness.reports) > 0
  /\ Len(harness.reports[1].held) > Len(Tasks)

\* C17: a report is never changed after it was returned: the runs it holds
\* stay the runs it held at its return, and these are the runs of its own
\* runEvaluation call only.
C17_ReportsAreSnapshots ==
  harness # None =>
    \A r \in 1..Len(harness.reports) :
      /\ harness.runs = harness.reports[r].held
      /\ harness.reports[r].held = RunsOf(ExecutedIn(harness.reports[r].pass))

\* the first list is the beginning of the second
IsPrefix(before, after) ==
  /\ Len(before) <= Len(after)
  /\ SubSeq(after, 1, Len(before)) = before

\* C27: the record list is append-only between resets: every step of
\* executeToolCall, getMetrics or exportMetricsCSV keeps the records already
\* in the list as they are, in their places, and lowers none of the four
\* counters.
C27_RecordsAppendOnly ==
  [][(calls' # calls \/ output' # None) =>
       /\ IsPrefix(metrics.operations, metrics'.operations)
       /\ metrics'.totalOperations >= metrics.totalOperations
       /\ metrics'.successfulOperations >= metrics.successfulOperations
       /\ metrics'.failedOperations >= metrics.failedOperations
       /\ metrics'.totalRetries >= metrics.totalRetries]_vars

\* a session of two records has been read by getMetrics
C27_Witness ==
  /\ Len(metrics.operations) > 1
  /\ output # None
  /\ output[1].op = "getMetrics"

\* C28: the record of a call that failed after a non-2xx response carries
\* the status of that last response as its httpStatus; the record of a
\* successful call carries the 2xx status.
C28_RecordCarriesLastStatus ==
  \A c \in Callers :
    (Finished(c) /\ calls[c].settled # None /\ Len(calls[c].appended) = 1
     /\ calls[c].settled[1].kind = "response") =>
      calls[c].appended[1].httpStatus = Some(calls[c].settled[1].status)

\* the number of retries executeWithRetry allows the call of call site c: the
\* smaller of the policy's maxRetries and the runner's, each replaced by the
\* default when absent or 0
RetriesAllowed(c) ==
  LET declared == OperationOf(c).retry[1].maxRetries
      policy == IF declared \in {None, Some(0)} THEN DefaultMaxRetries
                ELSE declared[1]
      runner == IF config.maxRetries \in {None, Some(0)} THEN DefaultMaxRetries
                ELSE config.maxRetries[1]
  IN IF policy < runner THEN policy ELSE runner

\* the fetch of call site c has been rejected: a network failure or the timeout
Rejected(c) ==
  calls[c].settled # None /\ calls[c].settled[1].kind = "rejection"

Answered2xx(c) ==
  /\ Finished(c)
  /\ calls[c].settled # None
  /\ calls[c].settled[1].kind = "response"
  /\ calls[c].settled[1].status \in 200..299

\* the parsed body of a response does not match the operation's output schema
OutputMismatch(operation, body) ==
  /\ operation.output # None
  /\ \/ JsonParse(body) = None
     \/ JsonParse(body)[1].type # "object"
     \/ ~operation.output[1].compiles
     \/ \E name \in operation.output[1].required :
          \A m \in JsonParse(body)[1].members : m[1] # name

\* C21: a failed output validation never changes the outcome: after a 2xx
\* response whose body does not match the output schema, executeToolCall still
\* returns the parsed data and records the call as successful.
C21_OutputValidationNeverFails ==
  \A c \in Callers :
    (Answered2xx(c) /\ OutputMismatch(OperationOf(c), calls[c].settled[1].body))
    => /\ calls[c].pc = "returned"
       /\ calls[c].result # None
       /\ calls[c].result[1] =
            (IF JsonParse(calls[c].settled[1].body) = None THEN JsonObject({})
             ELSE JsonParse(calls[c].settled[1].body)[1])
       /\ Len(calls[c].appended) = 1
       /\ calls[c].appended[1].success

\* a call returned the item-less object that its validation rejected and warned of
C21_Witness ==
  \E c \in Callers :
    /\ Answered2xx(c)
    /\ calls[c].settled[1].body = "{}"
    /\ calls[c].outputValid = Some(FALSE)
    /\ calls[c].warned
    /\ calls[c].pc = "returned"

\* C22: a 2xx response whose body is empty or is no JSON is a success: the
\* call returns an empty object at that response, without another send
\* attempt, and its record has success = true.
C22_UnparsableBodyIsSuccess ==
  \A c \in Callers :
    (/\ calls[c].settled # None
     /\ calls[c].settled[1].kind = "response"
     /\ calls[c].settled[1].status \in 200..299
     /\ (calls[c].settled[1].body = "" \/ JsonParse(calls[c].settled[1].body) = None))
    => /\ calls[c].pc = "returned"
       /\ calls[c].result = Some(JsonObject({}))
       /\ Len(calls[c].appended) = 1
       /\ calls[c].appended[1].success

\* one call returned {} for an empty body, another for a body that is no JSON
C22_Witness ==
  \E c, d \in Callers :
    /\ calls[c].pc = "returned" /\ calls[c].settled = Some(HttpResponse(200, ""))
    /\ calls[d].pc = "returned" /\ calls[d].settled = Some(HttpResponse(200, "<html>"))
    /\ calls[d].sends = 2

\* the value of a header in the first of the sources, taken last to first,
\* that names it
LatestValue(name, sources) ==
  LET defining == {i \in 1..Len(sources) : name \in DOMAIN sources[i]}
  IN sources[CHOOSE i \in defining : \A j \in defining : j <= i][name]

\* the header sources of a context in the order of their application
HeaderSources(context) ==
  <<DefaultHeaders>>
  \o (IF context.authHeaders = None THEN <<>> ELSE context.authHeaders)
  \o (IF context.sdkAuthHeaders = None THEN <<>> ELSE context.sdkAuthHeaders)

\* C29: the headers of a request are the default headers, then the
\* context's auth headers, then the document's auth headers, a later source
\* overriding an earlier one: every header of any source is in the request,
\* with the value of the last source that names it.
C29_LaterHeadersOverride ==
  (built # None /\ built.request # None) =>
    LET sources == HeaderSources(built.context)
        headers == built.request[1].headers
    IN /\ DOMAIN headers = UNION {DOMAIN sources[i] : i \in 1..Len(sources)}
       /\ \A name \in DOMAIN headers :
            headers[name] = LatestValue(name, sources)

\* all three sources name Content-Type and the document's value is sent
C29_Witness ==
  /\ built # None /\ built.request # None
  /\ built.context.authHeaders # None
  /\ "Content-Type" \in DOMAIN built.context.authHeaders[1]
  /\ built.context.sdkAuthHeaders # None
  /\ "Content-Type" \in DOMAIN built.context.sdkAuthHeaders[1]
  /\ built.request[1].headers["Content-Type"] = "application/xml"
  /\ built.request[1].headers["Authorization"] = "Bearer caller"

\* the places of the declared patterns whose code is the status
PatternsOf(errors, httpStatus) ==
  {i \in 1..Len(errors) : errors[i].code = ToString(httpStatus)}

\* C24: when some declared pattern has the status as its code, the result of
\* extractErrorInfo has the code, the retryable flag, the recovery hint and
\* the category of the first such pattern in declaration order; otherwise it
\* is retryable exactly when the status is 429 or at least 500.
C24_FirstPatternElseDefault ==
  (classified # None /\ classified.result # None) =>
    LET errors == classified.operation.errors
        matching == PatternsOf(errors, classified.httpStatus)
        result == classified.result[1]
    IN IF matching # {}
       THEN \E i \in matching :
              /\ \A j \in matching : i <= j
              /\ result.code = errors[i].code
              /\ result.retryable = (errors[i].retryable = Some(TRUE))
              /\ result.recoveryHint = errors[i].recoveryHint
              /\ result.category = Some(errors[i].category)
       ELSE result.retryable <=>
              (classified.httpStatus >= 500 \/ classified.httpStatus = 429)

\* a 500 with two patterns: the retryable one declared first won over the
\* one declared after it
C24_Witness ==
  /\ classified # None /\ classified.result # None
  /\ classified.httpStatus = 500
  /\ Len(classified.operation.errors) = 2
  /\ classified.operation.errors[1].code = "500"
  /\ classified.operation.errors[1].retryable = Some(TRUE)
  /\ classified.operation.errors[1].category = "server"
  /\ classified.operation.errors[2].code = "500"
  /\ classified.operation.errors[2].retryable = Some(FALSE)
  /\ classified.operation.errors[2].category = "client"
  /\ classified.result[1].retryable
  /\ classified.result[1].category = Some("server")

\* how many records of a list are successes
RECURSIVE CountSuccess(_)
CountSuccess(records) ==
  IF records = <<>> THEN 0
  ELSE (IF records[Len(records)].success THEN 1 ELSE 0)
       + CountSuccess(SubSeq(records, 1, Len(records) - 1))

\* the metrics object of runner r holds exactly the calls made on r since its
\* last reset: one record for each, in their order, and their count
ReflectsOwnCalls(r) ==
  LET own == MetricsOf(fleet, r)
      made == fleet.runners[r].made
  IN /\ Len(own.operations) = Len(made)
     /\ \A i \in 1..Len(made) :
          /\ own.operations[i].operationId = made[i].operationId
          /\ own.operations[i].success = made[i].success
     /\ own.totalOperations = Len(made)
     /\ own.successfulOperations = CountSuccess(made)
     /\ own.failedOperations = Len(made) - CountSuccess(made)

\* C25: two runner instances share no metrics state: the records and the
\* counters of a runner reflect exactly the calls made on it, and no
\* operation on another runner changes them, however the calls interleave.
C25_RunnersShareNoMetrics ==
  /\ [](fleet # None => \A r \in Runners : ReflectsOwnCalls(r))
  /\ [][fleet # None =>
          \A a, b \in Runners :
            (a # b /\ fleet'.runners[b] # fleet.runners[b])
            => MetricsOf(fleet', a) = MetricsOf(fleet, a)]_vars

\* both runners have a call in flight and the first one has recorded one before
C25_Witness ==
  /\ fleet # None
  /\ \A r \in Runners : fleet.runners[r].call.pc = "sending"
  /\ Len(MetricsOf(fleet, 1).operations) = 1
  /\ Len(MetricsOf(fleet, 2).operations) = 0
  /\ fleet.runners[1].call.sends = 2

\* C30: aggregation is a pure fold that runs after the barrier: in the step
\* that returns a report, every (task, treatment) pair of the pass has
\* settled, no executeTask call is started, and every run of the run list
\* stays as it was (the run of the call that settled in this step is the
\* only one added); the report folds that list.
C30_AggregationAfterBarrierIsPure ==
  [][(harness # None /\ Len(harness'.reports) > Len(harness.reports)) =>
       /\ Len(SelectSeq(harness'.executed,
                        LAMBDA e : e.pass = harness'.passes))
            = Len(Tasks) * Len(harness'.treatments)
       /\ harness'.pc = "idle"
       /\ IsPrefix(harness.executed, harness'.executed)
       /\ Len(harness'.executed) <= Len(harness.executed) + 1
       /\ Len(harness'.executed) > Len(harness.executed)
            => harness.pc = "awaiting"
       /\ IsPrefix(harness.runs, harness'.runs)
       /\ Len(harness'.runs) - Len(harness.runs)
            <= Len(harness'.executed) - Len(harness.executed)
       /\ harness'.reports[Len(harness'.reports)].held = harness'.runs
       /\ harness'.treatments = harness.treatments]_vars

\* the first runEvaluation call has returned a report over the runs of
\* every pair, and the run list still holds them
C30_Witness ==
  /\ harness # None
  /\ harness.pc = "idle"
  /\ harness.passes = 1
  /\ Len(harness.reports) = 1
  /\ Len(harness.treatments) = 2
  /\ Len(harness.runs) = Len(Tasks) * 2
  /\ harness.reports[1].held = harness.runs

\* C26: when the executeTask of a treatment never settles for a task that
\* has a timeoutMs, the harness stops waiting once that time has passed and
\* goes on: it is then no longer waiting for that call, and the
\* runEvaluation call eventually returns.
C26_HungTreatmentTimesOut ==
  (harness.pc = "awaiting" /\ harness.hung /\ harness.elapsed)
    ~> harness.pc = "idle"

\* the sum of retryCount over a record list
RECURSIVE SumRetryCount(_)
SumRetryCount(records) ==
  IF records = <<>> THEN 0
  ELSE records[Len(records)].retryCount
       + SumRetryCount(SubSeq(records, 1, Len(records) - 1))

\* C32: the retryCount of every record is the number of send attempts of its
\* call minus one, 0 for a call that failed before any send; totalRetries is
\* the sum of retryCount over the records of the session, and the record
\* list has totalOperations entries.
C32_RetryCountIsSendsMinusOne ==
  /\ \A c \in Callers :
       \A i \in 1..Len(calls[c].appended) :
         calls[c].appended[i].retryCount =
           IF calls[c].sends = 0 THEN 0 ELSE calls[c].sends - 1
  /\ metrics.totalRetries = SumRetryCount(metrics.operations)
  /\ Len(metrics.operations) = metrics.totalOperations

\* a call of two send attempts sits in a session next to a call that failed
\* before any send
C32_Witness ==
  /\ \E c, d \in Callers :
       /\ calls[c].sends = 2
       /\ Len(calls[c].appended) = 1
       /\ calls[c].appended[1].retryCount = 1
       /\ calls[d].sends = 0
       /\ Len(calls[d].appended) = 1
  /\ metrics.totalRetries = 1
  /\ Len(metrics.operations) = 2

\* the invocation of call site c ends in this step
Ends(c) == calls'[c] # calls[c] /\ calls'[c].pc \in {"returned", "threw"}

\* C34: when executeToolCall invocations overlap on one runner, every
\* invocation that ends adds exactly one record to the session, with the
\* name, the retry count and the outcome of that invocation, and nothing
\* else adds or changes a record; totalOperations is always
\* successfulOperations + failedOperations. So a session without a reset
\* holds one record per finished invocation.
C34_OverlappingCallsRecordTheirOwn ==
  /\ [](metrics.totalOperations
          = metrics.successfulOperations + metrics.failedOperations)
  /\ [][config.enableMetrics =>
          /\ \A c \in Callers :
               Ends(c) =>
                 /\ Len(metrics'.operations) = Len(metrics.operations) + 1
                 /\ IsPrefix(metrics.operations, metrics'.operations)
                 /\ LET rec == metrics'.operations[Len(metrics'.operations)]
                    IN /\ rec.operationId = calls'[c].name
                       /\ rec.success = (calls'[c].pc = "returned")
                       /\ rec.retryCount =
                            (IF calls'[c].sends = 0 THEN 0
                             ELSE calls'[c].sends - 1)
                 /\ metrics'.totalOperations = metrics.totalOperations + 1
          /\ ((\A c \in Callers : ~Ends(c)) /\ calls' # calls)
               => metrics' = metrics]_vars

\* two invocations overlapped: the one that began second ended first, and
\* the session holds the record of each, in the order of their ends
C34_Witness ==
  /\ calls[1].pc = "threw" /\ calls[1].name = "getItem" /\ calls[1].sends = 2
  /\ calls[2].pc = "returned" /\ calls[2].name = "listItems"
  /\ Len(metrics.operations) = 2
  /\ metrics.operations[1].operationId = "listItems"
  /\ metrics.operations[1].success
  /\ metrics.operations[1].retryCount = 0
  /\ metrics.operations[2].operationId = "getItem"
  /\ ~metrics.operations[2].success
  /\ metrics.operations[2].retryCount = 1

\* a step of resetMetrics: no call moves, none begins, nothing is read
ResetStep == calls' = calls /\ pending' = pending /\ output' = None

\* C39: resetMetrics is the only operation that clears a session: it sets the
\* four counters to 0 and empties the record list, no other step shortens
\* the list, and a call that began before a reset and ends after it is
\* recorded in the session of its end; the record list has totalOperations
\* entries in every state.
C39_ResetStartsEmptySession ==
  /\ [](Len(metrics.operations) = metrics.totalOperations)
  /\ [][/\ ResetStep =>
             /\ metrics'.operations = <<>>
             /\ metrics'.totalOperations = 0
             /\ metrics'.successfulOperations = 0
             /\ metrics'.failedOperations = 0
             /\ metrics'.totalRetries = 0
        /\ ~ResetStep => Len(metrics'.operations) >= Len(metrics.operations)
        /\ \A c \in Callers :
             (Ends(c) /\ config.enableMetrics) =>
               /\ metrics'.operations
                    = Append(metrics.operations, calls'[c].appended[1])
               /\ metrics'.totalOperations = metrics.totalOperations + 1]_vars

\* the first call began, the second began and ended, the session was reset,
\* and then the first call ended: the new session holds its record alone
C39_Witness ==
  /\ pending = 0
  /\ calls[1].pc = "returned" /\ Len(calls[1].appended) = 1
  /\ calls[2].pc = "returned" /\ Len(calls[2].appended) = 1
  /\ calls[2].name = "listItems" /\ calls[1].name = "getItem"
  /\ metrics.totalOperations = 1
  /\ metrics.operations = calls[1].appended

\* the send attempts the call of call site c is permitted
SendsPermitted(c) == IF RetryEnabled(c) THEN RetriesAllowed(c) + 1 ELSE 1

\* C38: within one executeToolCall the lookup comes first, then the input
\* validation, then the send attempts, and every backoff wait lies between
\* two send attempts: a call has sent only after its operation was found and
\* its input accepted, its waits are its sends minus one (its sends, while it
\* waits), and after a 2xx response or the failure of the last permitted
\* attempt it ends in that step, without a wait and without another send.
C38_StepsInOrder ==
  /\ [](\A c \in Callers :
          /\ calls[c].inputChecked => Known(c)
          /\ calls[c].validated => calls[c].inputChecked
          /\ calls[c].sends > 0 => calls[c].validated
          /\ calls[c].waits =
               (IF calls[c].pc = "waiting" THEN calls[c].sends
                ELSE IF calls[c].sends = 0 THEN 0 ELSE calls[c].sends - 1)
          /\ calls[c].pc = "waiting" => calls[c].sends < SendsPermitted(c))
  /\ [][\A c \in Callers :
          /\ (calls[c].pc = "sending" /\ calls'[c] # calls[c]) =>
               LET settle == calls'[c].settled[1]
               IN ((settle.kind = "response" /\ settle.status \in 200..299)
                   \/ calls[c].sends = SendsPermitted(c))
                  => /\ calls'[c].pc \in {"returned", "threw"}
                     /\ calls'[c].sends = calls[c].sends
                     /\ calls'[c].waits = calls[c].waits
          /\ (calls[c].pc \in {"returned", "threw"} /\ calls'[c] # calls[c])
               => pending' = pending - 1]_vars

\* a call used all its permitted attempts, three or more, and ended at the
\* failure of the last
C38_Witness ==
  \E c \in Callers :
    /\ RetryEnabled(c)
    /\ calls[c].pc = "threw"
    /\ calls[c].sends = SendsPermitted(c)
    /\ calls[c].sends >= 3
    /\ calls[c].waits = calls[c].sends - 1

\* C40: the runner's maxRetries caps the policy of every operation: without
\* a configured value no call makes more than 4 send attempts, with a
\* configured value M > 0 none makes more than M + 1, whatever the policy
\* declares; and a call whose every send attempt settles ends.
C40_RunnerCapBoundsEveryCall ==
  /\ [](\A c \in Callers :
          /\ config.maxRetries = None
               => calls[c].sends <= DefaultMaxRetries + 1
          /\ (config.maxRetries # None /\ config.maxRetries[1] > 0)
               => calls[c].sends <= config.maxRetries[1] + 1)
  /\ \A c \in Callers :
       (calls[c].pc \in {"sending", "waiting"}) ~> Finished(c)

\* a policy of four retries under a runner of one: the call ended after its
\* second send attempt
C40_Witness ==
  \E c \in Callers :
    /\ config.maxRetries = Some(1)
    /\ DeclaresMaxRetries(c) /\ PolicyMaxRetries(c) = MaxPolicyRetries
    /\ RetryEnabled(c)
    /\ calls[c].pc = "threw"
    /\ calls[c].sends = 2

\* no two operations of the document have the same opId
UniqueIds(operations) ==
  \A i, j \in 1..Len(operations) :
    operations[i].opId = operations[j].opId => i = j

\* C31: the tool manifest has exactly one tool per operation, in operation
\* order, named by the opId, and metadata.operationCount is the number of
\* tools; when the operation ids are unique, findOperationForToolCall
\* resolves every tool name of the manifest to the operation the tool was
\* built from.
C31_ManifestMirrorsOperations ==
  (manifest # None /\ manifest.exported # None) =>
    LET operations == manifest.operations
        tools == manifest.exported[1].tools
    IN /\ Len(tools) = Len(operations)
       /\ \A i \in 1..Len(tools) :
            tools[i].function.name = operations[i].opId
       /\ manifest.exported[1].metadata.operationCount = Len(tools)
       /\ (manifest.resolved # None /\ UniqueIds(operations)) =>
            manifest.resolved[1].operation
              = Some(operations[manifest.resolved[1].tool])

\* the name of the last tool of a manifest of three operations has been
\* resolved to the third operation
C31_Witness ==
  /\ manifest # None /\ manifest.resolved # None
  /\ Len(manifest.operations) = 3
  /\ UniqueIds(manifest.operations)
  /\ manifest.resolved[1].tool = 3
  /\ manifest.resolved[1].operation = Some(manifest.operations[3])

\* C33: on a fresh harness, after a runEvaluation call in which no
\* executeTask threw, the summary entry of every registered treatment,
\* whatever the name it was registered under, has totalTasks equal to the
\* number of tasks.
C33_EveryRegisteredNameCountsItsTasks ==
  harness # None =>
    \A r \in 1..Len(harness.reports) :
      LET report == harness.reports[r]
          log == ExecutedIn(report.pass)
      IN (report.pass = 1 /\ \A k \in 1..Len(log) : log[k].thrown = None) =>
           \A i \in 1..Len(report.treatments) :
             report.summary[report.treatments[i]].totalTasks = Len(Tasks)

(***************************************************************************)
(* One executeTask call of a treatment, followed through its body. The     *)
(* harness above draws whole executeTask outcomes; here the completions,   *)
(* the fetches and the tool calls of one call settle one at a time, and    *)
(* the tool calls of the AgentSDK treatment run on the runner above.       *)
(***************************************************************************)
\* the most tool calls one completion asks for
MaxToolCalls == 2

\* the most GET lines one plan holds
MaxApiCalls == 2

\* the elements a result array may hold: a fact object the checker of the
\* task accepts, a fact object whose length is below 10, a fact object whose
\* `fact` is a number, and null
Facts == {"good", "short", "untyped", "null"}

\* a JSON array of elements
AnswerArray(items) == [kind |-> "array", key |-> "", items |-> items]

\* a JSON object holding one array under one key
AnswerObject(key, items) == [kind |-> "object", key |-> key, items |-> items]

\* the JSON value null
AnswerNull == [kind |-> "null", key |-> "", items |-> <<>>]

\* the JSON values the final answer of a completion may hold
ResultValues ==
  {AnswerArray(<<"good", "good", "good">>),
   AnswerArray(<<"good", "good">>),
   AnswerArray(<<"good", "short", "null">>),
   AnswerArray(<<"good", "null", "good">>),
   AnswerObject("data", <<"good", "good", "good">>),
   AnswerObject("payload", <<"good", "good", "good">>),
   AnswerNull}

\* message.content of a completion: JSON text alone ("bare"), prose around a
\* fenced block of JSON text ("fenced"), prose around a fenced block whose
\* brackets hold no JSON ("broken"), prose alone ("prose"), or nothing
Contents ==
  {[form |-> f, json |-> Some(v)] : f \in {"bare", "fenced"},
                                    v \in ResultValues}
  \cup {[form |-> f, json |-> None] : f \in {"broken", "prose", "empty"}}

\* the result extraction of both treatments: JSON.parse of the fenced block
\* when the pattern finds one, of the whole content otherwise; None when
\* JSON.parse throws
ExtractJson(content) ==
  IF content.form \in {"fenced", "broken"}
  THEN \* jsonMatch: the capture is parsed
       IF content.form = "fenced" THEN content.json ELSE None
  ELSE \* the whole content is parsed: "" and prose are no JSON
       IF content.form = "bare" THEN content.json ELSE None

\* the wrapper keys of the AgentSDK treatment
ArrayKeys == <<"cat_facts", "facts", "data", "results", "items">>

\* "unwrap common response patterns": an object that holds an array under a
\* wrapper key is replaced by that array
Unwrap(result) ==
  IF result.kind = "object"
     /\ \E i \in 1..Len(ArrayKeys) : ArrayKeys[i] = result.key
  THEN AnswerArray(result.items)
  ELSE result

\* the loop of the successChecker of task T1 over the elements of the array
RECURSIVE CheckFacts(_)
CheckFacts(items) ==
  IF items = <<>> THEN [returned |-> Some(TRUE), thrown |-> None]
  ELSE IF Head(items) = "null"
  THEN [returned |-> None,
        thrown |-> Some("Cannot read properties of null (reading 'fact')")]
  ELSE IF Head(items) \in {"untyped", "short"}
  THEN [returned |-> Some(FALSE), thrown |-> None]
  ELSE CheckFacts(Tail(items))

\* the length the successChecker of task T1 asks for
FactsWanted == 3

\* task.successChecker(result) of task T1: what it returns, or what it throws
SuccessChecker(result) ==
  IF result.kind # "array" THEN [returned |-> Some(FALSE), thrown |-> None]
  ELSE IF Len(result.items) # FactsWanted
  THEN [returned |-> Some(FALSE), thrown |-> None]
  ELSE CheckFacts(result.items)

\* the message of the error a rejected completion request carries
ConnectionError == "Connection error."

\* the locals of an executeTask call at its entry, with the place the call
\* has reached, the GET lines of the plan still to fetch, and the run the
\* call returned
NewTrial(type) ==
  [type |-> type, taskId |-> Tasks[1], pc |-> "planning",
   tokensIn |-> 0, tokensOut |-> 0, httpCalls |-> 0, httpErrors |-> 0,
   apiCalls |-> 0, apiResults |-> <<>>, run |-> None]

\* tokensIn += usage.prompt_tokens; tokensOut += usage.completion_tokens
AddUsage(t) ==
  [t EXCEPT !.tokensIn = @ + PromptTokens, !.tokensOut = @ + CompletionTokens]

\* the EvaluationRun the try block of a treatment returns
ReturnedRun(t, success, result, httpCalls, retries, httpErrors) ==
  [taskId |-> t.taskId,
   treatmentName |-> RunTreatmentName(t.type),
   duration |-> Now - Now,
   success |-> success,
   result |-> Some(result),
   error |-> None,
   metrics |-> [tokensIn |-> t.tokensIn, tokensOut |-> t.tokensOut,
                totalTokens |-> t.tokensIn + t.tokensOut,
                httpCalls |-> httpCalls,
                invalidCalls |-> IF success THEN 0 ELSE 1,
                retries |-> retries,
                httpErrors |-> httpErrors]]

\* a catch block that reports its failed run as a success
BaselineCatchReportingSuccess(t, message) ==
  [taskId |-> t.taskId,
   treatmentName |-> RunTreatmentName(t.type),
   duration |-> Now - Now,
   success |-> TRUE,
   result |-> None,
   error |-> Some(message),
   metrics |-> [tokensIn |-> t.tokensIn, tokensOut |-> t.tokensOut,
                totalTokens |-> t.tokensIn + t.tokensOut,
                httpCalls |-> t.httpCalls,
                invalidCalls |-> 0,
                retries |-> 0,
                httpErrors |-> t.httpErrors]]

\* the EvaluationRun the catch block of BaselineTreatment.executeTask returns
BaselineCatch(t, message) ==
  [taskId |-> t.taskId,
   treatmentName |-> RunTreatmentName(t.type),
   duration |-> Now - Now,
   success |-> FALSE,
   result |-> None,
   error |-> Some(message),
   metrics |-> [tokensIn |-> t.tokensIn, tokensOut |-> t.tokensOut,
                totalTokens |-> t.tokensIn + t.tokensOut,
                httpCalls |-> t.httpCalls,
                invalidCalls |-> 1,
                retries |-> 0,
                httpErrors |-> t.httpErrors]]

\* the EvaluationRun the catch block of AgentSDKTreatment.executeTask returns
AgentSDKCatch(t, message) ==
  [taskId |-> t.taskId,
   treatmentName |-> RunTreatmentName(t.type),
   duration |-> Now - Now,
   success |-> FALSE,
   result |-> None,
   error |-> Some(message),
   metrics |-> [tokensIn |-> t.tokensIn, tokensOut |-> t.tokensOut,
                totalTokens |-> t.tokensIn + t.tokensOut,
                httpCalls |-> 0,
                invalidCalls |-> 1,
                retries |-> 0,
                httpErrors |-> 0]]

\* BaselineTreatment.executeTask from the content of its second completion
\* on: result extraction, successChecker, the run
BaselineScore(t, content) ==
  IF ExtractJson(content) = None
  THEN BaselineCatch(t, "No valid JSON in response")
  ELSE IF SuccessChecker(ExtractJson(content)[1]).thrown # None
  THEN BaselineCatch(t, SuccessChecker(ExtractJson(content)[1]).thrown[1])
  ELSE ReturnedRun(t, SuccessChecker(ExtractJson(content)[1]).returned[1],
                   ExtractJson(content)[1], t.httpCalls, 0, t.httpErrors)

\* AgentSDKTreatment.executeTask from the content of its last completion on:
\* result extraction, unwrapping, successChecker, runner.getMetrics() in the
\* branch of the tool calls, the run
AgentSDKScore(t, content, toolCalls, runnerMetrics) ==
  IF ExtractJson(content) = None
  THEN AgentSDKCatch(t, IF toolCalls THEN "No valid JSON in final response"
                        ELSE "No valid JSON in response")
  ELSE IF SuccessChecker(Unwrap(ExtractJson(content)[1])).thrown # None
  THEN AgentSDKCatch(t, SuccessChecker(Unwrap(ExtractJson(content)[1]))
                          .thrown[1])
  ELSE IF toolCalls
  THEN ReturnedRun(t,
                   SuccessChecker(Unwrap(ExtractJson(content)[1])).returned[1],
                   Unwrap(ExtractJson(content)[1]),
                   runnerMetrics.totalOperations, runnerMetrics.totalRetries,
                   runnerMetrics.failedOperations)
  ELSE ReturnedRun(t,
                   SuccessChecker(Unwrap(ExtractJson(content)[1])).returned[1],
                   Unwrap(ExtractJson(content)[1]), 0, 0, 0)

\* what a completion request settles with: a rejection, or a message with
\* its content and the number of its tool calls (None without tool_calls)
Completions(toolCallCounts) ==
  {[kind |-> "rejects", toolCalls |-> None, content |-> c] :
     c \in {[form |-> "empty", json |-> None]}}
  \cup {[kind |-> "message", toolCalls |-> n, content |-> c] :
          n \in toolCallCounts, c \in Contents}

\* what the fetch of a planned GET line settles with: a 2xx response with a
\* JSON body, a 2xx response whose body is no JSON, a response that is not
\* ok, a rejection
FetchOutcomes == {"ok", "badBody", "notOk", "rejected"}

\* one round of the fetch loop of BaselineTreatment.executeTask: the try
\* block, then its catch block when the try block threw
BaselineFetch(t, outcome) ==
  LET counted == [t EXCEPT !.httpCalls = @ + 1, !.apiCalls = @ - 1]
      \* if (!response.ok) { httpErrors++; throw new Error(`HTTP ${status}`) }
      tried == IF outcome = "notOk"
               THEN [counted EXCEPT !.httpErrors = @ + 1]
               ELSE counted
      thrown == CASE outcome = "notOk" -> Some("HTTP 404")
                  [] outcome = "rejected" -> Some("fetch failed")
                  [] outcome = "badBody" ->
                       Some("Unexpected token < in JSON at position 0")
                  [] OTHER -> None
  IN IF thrown = None
     THEN [tried EXCEPT !.apiResults = Append(@, [error |-> None])]
     ELSE [tried EXCEPT !.httpErrors = @ + 1,
                        !.apiResults = Append(@, [error |-> thrown])]

\* BaselineTreatment.executeTask up to the settling of its first completion:
\* the GET lines of the plan are extracted
BaselinePlanSettles(plan) ==
  /\ trial # None
  /\ trial.type = "BaselineTreatment"
  /\ trial.pc = "planning"
  /\ trial' =
       IF plan.kind = "rejects"
       THEN [trial EXCEPT !.pc = "done",
                          !.run = Some(BaselineCatch(trial, ConnectionError))]
       ELSE [AddUsage(trial) EXCEPT !.pc = "fetching", !.apiCalls = plan.apiCalls]
  /\ UNCHANGED <<sdk, config, metrics, calls, output, pending, built, harness,
                 classified, fleet, manifest>>

\* the fetch of a planned GET line settles
BaselineFetchSettles(outcome) ==
  /\ trial # None
  /\ trial.type = "BaselineTreatment"
  /\ trial.pc = "fetching"
  /\ trial.apiCalls > 0
  /\ trial' = BaselineFetch(trial, outcome)
  /\ UNCHANGED <<sdk, config, metrics, calls, output, pending, built, harness,
                 classified, fleet, manifest>>

\* the second completion settles after the last fetch: the rest of
\* BaselineTreatment.executeTask
BaselineProcessSettles(completion) ==
  /\ trial # None
  /\ trial.type = "BaselineTreatment"
  /\ trial.pc = "fetching"
  /\ trial.apiCalls = 0
  /\ trial' =
       IF completion.kind = "rejects"
       THEN [trial EXCEPT !.pc = "done",
                          !.run = Some(BaselineCatch(trial, ConnectionError))]
       ELSE [AddUsage(trial) EXCEPT
               !.pc = "done",
               !.run = Some(BaselineScore(AddUsage(trial), completion.content))]
  /\ UNCHANGED <<sdk, config, metrics, calls, output, pending, built, harness,
                 classified, fleet, manifest>>

\* AgentSDKTreatment.executeTask up to the settling of its first completion:
\* without tool_calls the content is the answer, with tool_calls they are
\* executed next
AgentSDKPlanSettles(completion) ==
  /\ trial # None
  /\ trial.type = "AgentSDKTreatment"
  /\ trial.pc = "planning"
  /\ IF completion.kind = "rejects"
     THEN /\ trial' = [trial EXCEPT
                         !.pc = "done",
                         !.run = Some(AgentSDKCatch(trial, ConnectionError))]
          /\ UNCHANGED pending
     ELSE IF completion.toolCalls = None
     THEN /\ trial' = [AddUsage(trial) EXCEPT
                         !.pc = "done",
                         !.run = Some(AgentSDKScore(AddUsage(trial),
                                                    completion.content,
                                                    FALSE, metrics))]
          /\ UNCHANGED pending
     ELSE /\ trial' = [AddUsage(trial) EXCEPT !.pc = "tools"]
          /\ pending' = completion.toolCalls[1]
  /\ UNCHANGED <<sdk, config, metrics, calls, output, built, harness,
                 classified, fleet, manifest>>

\* AgentSDKTreatment.executeTask is in the branch of the tool calls
ExecutingTools ==
  /\ trial # None
  /\ trial.type = "AgentSDKTreatment"
  /\ trial.pc = "tools"

\* the treatment is ready for its next tool call, or for its last completion
ToolCallSettled ==
  /\ ExecutingTools
  /\ calls[1].pc \notin {"sending", "waiting"}

\* JSON.parse(toolCall.function.arguments) throws: the tool call is answered
\* with the error and the runner is not called
ToolArgumentsMalformed ==
  /\ ToolCallSettled
  /\ pending > 0
  /\ pending' = pending - 1
  /\ UNCHANGED <<sdk, config, metrics, calls, output, built, harness,
                 classified, fleet, manifest, trial>>

\* await runner.executeToolCall(name, args) of the next tool call, up to its
\* first fetch
ToolCallStarts(toolCallName, args) ==
  /\ ToolCallSettled
  /\ ExecuteToolCall(1, toolCallName, args)

\* the last completion settles after the last tool call: the rest of
\* AgentSDKTreatment.executeTask
AgentSDKFinalSettles(completion) ==
  /\ ToolCallSettled
  /\ pending = 0
  /\ trial' =
       IF completion.kind = "rejects"
       THEN [trial EXCEPT !.pc = "done",
                          !.run = Some(AgentSDKCatch(trial, ConnectionError))]
       ELSE [AddUsage(trial) EXCEPT
               !.pc = "done",
               !.run = Some(AgentSDKScore(AddUsage(trial), completion.content,
                                          TRUE, metrics))]
  /\ UNCHANGED <<sdk, config, metrics, calls, output, pending, built, harness,
                 classified, fleet, manifest>>

\* the plans a first completion of the baseline may hold, by their GET lines
Plans ==
  {[kind |-> "rejects", apiCalls |-> 0]}
  \cup {[kind |-> "message", apiCalls |-> n] : n \in 0..MaxApiCalls}

\* one executeTask call of either treatment on task T1; the runner is the
\* one createRunner({sdk, baseUrl, enableMetrics: true, enableLogging:
\* false}) makes at the start of AgentSDKTreatment.executeTask
InitTrial ==
  /\ sdk = DemoSdk
  /\ config = [maxRetries |-> None, enableMetrics |-> TRUE,
               enableLogging |-> FALSE]
  /\ metrics = NewMetrics(GenerateSessionId)
  /\ calls = [c \in Callers |-> IdleCall]
  /\ output = None
  /\ pending = 0
  /\ built = None
  /\ harness = None
  /\ classified = None
  /\ fleet = None
  /\ manifest = None
  /\ trial \in {NewTrial(type) : type \in TreatmentTypes}

NextTrial ==
  \/ \E plan \in Plans : BaselinePlanSettles(plan)
  \/ \E outcome \in FetchOutcomes : BaselineFetchSettles(outcome)
  \/ \E completion \in Completions({None}) :
       BaselineProcessSettles(completion)
  \/ \E completion \in
          Completions({None} \cup {Some(n) : n \in 0..MaxToolCalls}) :
       AgentSDKPlanSettles(completion)
  \/ ToolArgumentsMalformed
  \/ \E n \in ToolNames, a \in ArgObjects : ToolCallStarts(n, a)
  \/ \E r \in Responses : ExecutingTools /\ FetchSettles(1, r)
  \/ ExecutingTools /\ BackoffElapses(1)
  \/ \E completion \in Completions({None}) :
       AgentSDKFinalSettles(completion)

SpecTrial == InitTrial /\ [][NextTrial]_vars

\* the executeTask call of this treatment class has returned its run
Returned(type) ==
  trial # None /\ trial.type = type /\ trial.run # None

\* C36: every run BaselineTreatment.executeTask returns has httpErrors <=
\* httpCalls: a planned API call adds one to httpCalls and at most one to
\* httpErrors.
C36_ErrorsWithinCalls ==
  Returned("BaselineTreatment") =>
    trial.run[1].metrics.httpErrors <= trial.run[1].metrics.httpCalls

\* C35: every run AgentSDKTreatment.executeTask returns reports as httpCalls,
\* retries and httpErrors the totalOperations, totalRetries and
\* failedOperations of the runner used for the task, also when the run ends
\* with an error after tool calls were executed.
C35_RunReportsRunnerMetrics ==
  Returned("AgentSDKTreatment") =>
    /\ trial.run[1].metrics.httpCalls = metrics.totalOperations
    /\ trial.run[1].metrics.retries = metrics.totalRetries
    /\ trial.run[1].metrics.httpErrors = metrics.failedOperations

\* C37: in every run a built-in treatment returns, success is true only if
\* the successChecker of the task returned true on run.result, a run that
\* carries an error has success = false, and invalidCalls is 0 when success
\* is true and 1 otherwise.
C37_SuccessIsTheCheckersVerdict ==
  (trial # None /\ trial.run # None) =>
    /\ trial.run[1].success =>
         /\ trial.run[1].result # None
         /\ SuccessChecker(trial.run[1].result[1]).returned = Some(TRUE)
    /\ trial.run[1].error # None => ~trial.run[1].success
    /\ trial.run[1].metrics.invalidCalls =
         (IF trial.run[1].success THEN 0 ELSE 1)

\* the AgentSDK treatment returned a successful run after a tool call: its
\* result is an array the checker accepts, no invalid call is counted
C37_Witness ==
  /\ Returned("AgentSDKTreatment")
  /\ metrics.totalOperations > 0
  /\ trial.run[1].success
  /\ trial.run[1].result = Some(AnswerArray(<<"good", "good", "good">>))
  /\ trial.run[1].metrics.invalidCalls = 0
  /\ trial.run[1].metrics.httpCalls = metrics.totalOperations

=============================================================================
